---- MODULE Spec2Model ----
(***************************************************************************)
(* Role-aware financial assistant: the LangGraph workflow of src/agent.py  *)
(* (retrieve -> generate -> (tool_executor -> generate)* -> END), the      *)
(* SecureRetriever of src/retriever.py and the guardrails, audit log and   *)
(* calculator of src/guardrails.py.                                        *)
(*                                                                         *)
(* Python str values are sequences of one-character strings (a backtick   *)
(* and a non-ASCII character are written by their code point), so that    *)
(* len(), slicing, `in`, str.lower(), str.strip() and re.search() are      *)
(* computed on the characters, as the code computes them.                  *)
(***************************************************************************)
EXTENDS Integers, Sequences, FiniteSets, TLC

VARIABLES
    req,             \* per in-flight ask(): its arguments, the FinancialState of its graph run, its outcome
    retrieved_docs,  \* the module global _retrieved_docs of agent.py
    audit_log,       \* the lines of AUDIT_LOG_FILE, one entry per line
    log_calls,       \* history: the arguments of every log_access call, in order
    clock,           \* datetime.now(), as a logical time
    audit_file,      \* the characters of AUDIT_LOG_FILE, for the log_access calls run write by write
    writers,         \* per request: the log_access call it is in, with its open file object
    trace            \* history of the calls made by the specifications of the pure functions

vars == <<req, retrieved_docs, audit_log, log_calls, clock, audit_file, writers, trace>>

----------------------------------------------------------------------------
(* Characters and the str operations the code uses.                        *)

Upper ==
    {"A","B","C","D","E","F","G","H","I","J","K","L","M","N","O","P","Q","R","S","T","U","V","W","X","Y","Z"}
Lower ==
    {"a","b","c","d","e","f","g","h","i","j","k","l","m","n","o","p","q","r","s","t","u","v","w","x","y","z"}
Digit ==
    {"0","1","2","3","4","5","6","7","8","9"}
UpperSeq ==
    <<"A","B","C","D","E","F","G","H","I","J","K","L","M","N","O","P","Q","R","S","T","U","V","W","X","Y","Z">>
LowerSeq ==
    <<"a","b","c","d","e","f","g","h","i","j","k","l","m","n","o","p","q","r","s","t","u","v","w","x","y","z">>

\* \w of the re module, on the ASCII characters the model uses
WordChar == Upper \cup Lower \cup Digit \cup {"_"}

\* what str.strip() removes and \s matches
Whitespace == {" ", "\t", "\n", "\r", "\f"}

Min(a, b) == IF a <= b THEN a ELSE b

\* str.lower() of one character
ToLower == [c \in Upper |-> LowerSeq[CHOOSE i \in 1..Len(UpperSeq) : UpperSeq[i] = c]]

\* s.lower()
str_lower(s) == [i \in 1..Len(s) |-> IF s[i] \in Upper THEN ToLower[s[i]] ELSE s[i]]

\* sub in s
str_in(sub, s) ==
    \E i \in 1..(Len(s) - Len(sub) + 1) : SubSeq(s, i, i + Len(sub) - 1) = sub

\* the first position >= p whose character is not in S, or limit when there is none before it
RECURSIVE RunEnd(_, _, _, _)
RunEnd(s, p, S, limit) ==
    IF p < limit /\ p <= Len(s) /\ s[p] \in S THEN RunEnd(s, p + 1, S, limit) ELSE p

\* the last position <= p whose character is not in S, or 0
RECURSIVE RunStart(_, _, _)
RunStart(s, p, S) == IF p >= 1 /\ s[p] \in S THEN RunStart(s, p - 1, S) ELSE p

\* s.find(sub) from position i on: 0 when sub is not found (Python's -1), else the
\* 1-based index of the first occurrence
RECURSIVE str_find_from(_, _, _)
str_find_from(sub, s, i) ==
    IF i + Len(sub) - 1 > Len(s) THEN 0
    ELSE IF SubSeq(s, i, i + Len(sub) - 1) = sub THEN i
    ELSE str_find_from(sub, s, i + 1)

str_find(sub, s) == str_find_from(sub, s, 1)

\* s.strip()
str_strip(s) == SubSeq(s, RunEnd(s, 1, Whitespace, Len(s) + 1), RunStart(s, Len(s), Whitespace))

\* s.replace(old, new), left to right, non-overlapping (old is never empty here)
RECURSIVE str_replace(_, _, _)
str_replace(s, old, new) ==
    LET i == str_find(old, s)
    IN  IF i = 0 THEN s
        ELSE SubSeq(s, 1, i - 1) \o new \o str_replace(SubSeq(s, i + Len(old), Len(s)), old, new)

\* s.split(sep): the list of the pieces between the occurrences of sep
RECURSIVE str_split(_, _)
str_split(s, sep) ==
    LET i == str_find(sep, s)
    IN  IF i = 0 THEN <<s>>
        ELSE <<SubSeq(s, 1, i - 1)>> \o str_split(SubSeq(s, i + Len(sep), Len(s)), sep)

\* sep.join(parts)
RECURSIVE str_join(_, _)
str_join(sep, parts) ==
    IF parts = <<>> THEN <<>>
    ELSE IF Len(parts) = 1 THEN parts[1]
    ELSE parts[1] \o sep \o str_join(sep, Tail(parts))

----------------------------------------------------------------------------
(* re.search for the patterns of PII_PATTERNS.  A pattern is a sequence of *)
(* items: the assertion \b, or a character class with its repetition      *)
(* {min,max} (max < 0: unbounded).  Positions are the index of the next    *)
(* character to read.  MatchEnds keeps every position a backtracking       *)
(* matcher can reach, so the result does not depend on greediness.         *)

WordBoundary == [kind |-> "b"]
Cls(S, lo, hi) == [kind |-> "cls", set |-> S, min |-> lo, max |-> hi]
Chr(c) == Cls({c}, 1, 1)

IsWordAt(s, p) == p >= 1 /\ p <= Len(s) /\ s[p] \in WordChar

ItemEnds(item, s, P) ==
    IF item.kind = "b"
    THEN {p \in P : IsWordAt(s, p - 1) # IsWordAt(s, p)}
    ELSE UNION { LET limit == IF item.max < 0 THEN Len(s) + 1 ELSE p + item.max
                     e == RunEnd(s, p, item.set, limit)
                 IN  (p + item.min)..e : p \in P }

RECURSIVE MatchEnds(_, _, _, _)
MatchEnds(pat, j, s, P) ==
    IF j > Len(pat) \/ P = {} THEN P
    ELSE MatchEnds(pat, j + 1, s, ItemEnds(pat[j], s, P))

\* re.search(pat, s) is not None
re_search(pat, s) == MatchEnds(pat, 1, s, 1..(Len(s) + 1)) # {}

----------------------------------------------------------------------------
(* src/guardrails.py: PII detection and the guardrail.                     *)

\* r"\b\d{3}-\d{2}-\d{4}\b"
SSN_PATTERN ==
    <<WordBoundary, Cls(Digit, 3, 3), Chr("-"), Cls(Digit, 2, 2), Chr("-"), Cls(Digit, 4, 4),
      WordBoundary>>

\* r"\b\d{4}[-\s]?\d{4}[-\s]?\d{4}[-\s]?\d{4}\b"
CREDIT_CARD_PATTERN ==
    LET sep == Cls({"-"} \cup Whitespace, 0, 1)
    IN  <<WordBoundary, Cls(Digit, 4, 4), sep, Cls(Digit, 4, 4), sep, Cls(Digit, 4, 4), sep,
          Cls(Digit, 4, 4), WordBoundary>>

\* r"\b[A-Za-z0-9._%+-]+@[A-Za-z0-9.-]+\.[A-Z|a-z]{2,}\b"
EMAIL_PATTERN ==
    <<WordBoundary,
      Cls(Upper \cup Lower \cup Digit \cup {".", "_", "%", "+", "-"}, 1, -1),
      Chr("@"),
      Cls(Upper \cup Lower \cup Digit \cup {".", "-"}, 1, -1),
      Chr("."),
      Cls(Upper \cup Lower \cup {"|"}, 2, -1),
      WordBoundary>>

\* r"\b\d{3}[-.]?\d{3}[-.]?\d{4}\b"
PHONE_PATTERN ==
    LET sep == Cls({"-", "."}, 0, 1)
    IN  <<WordBoundary, Cls(Digit, 3, 3), sep, Cls(Digit, 3, 3), sep, Cls(Digit, 4, 4),
          WordBoundary>>

KIND_SSN == <<"s","s","n">>
KIND_CREDIT_CARD == <<"c","r","e","d","i","t","_","c","a","r","d">>
KIND_EMAIL == <<"e","m","a","i","l">>
KIND_PHONE == <<"p","h","o","n","e">>

\* the registry with phone moved before email: a dict written in another order
PII_PATTERNS_PhoneBeforeEmail ==
    << [pii_type |-> KIND_SSN, pattern |-> SSN_PATTERN],
       [pii_type |-> KIND_CREDIT_CARD, pattern |-> CREDIT_CARD_PATTERN],
       [pii_type |-> KIND_PHONE, pattern |-> PHONE_PATTERN],
       [pii_type |-> KIND_EMAIL, pattern |-> EMAIL_PATTERN] >>

\* the dict PII_PATTERNS, in its insertion order (the order .items() iterates in)
PII_PATTERNS ==
    << [pii_type |-> KIND_SSN, pattern |-> SSN_PATTERN],
       [pii_type |-> KIND_CREDIT_CARD, pattern |-> CREDIT_CARD_PATTERN],
       [pii_type |-> KIND_EMAIL, pattern |-> EMAIL_PATTERN],
       [pii_type |-> KIND_PHONE, pattern |-> PHONE_PATTERN] >>

\* check_pii(text): <<has_pii, pii_type>> of the first pattern of the registry that matches
RECURSIVE check_pii_from(_, _)
check_pii_from(text, i) ==
    IF i > Len(PII_PATTERNS) THEN <<FALSE, <<>> >>
    ELSE IF re_search(PII_PATTERNS[i].pattern, text) THEN <<TRUE, PII_PATTERNS[i].pii_type>>
    ELSE check_pii_from(text, i + 1)

check_pii(text) == check_pii_from(text, 1)

\* len(response) > 100
HALLUCINATION_MIN_LEN == 100

PHRASE_ACCORDING_TO == <<"a","c","c","o","r","d","i","n","g"," ","t","o">>
PHRASE_THE_DATA_SHOWS == <<"t","h","e"," ","d","a","t","a"," ","s","h","o","w","s">>
PHRASE_BASED_ON_THE_DOCUMENTS == <<"b","a","s","e","d"," ","o","n"," ","t","h","e"," ","d","o","c","u","m","e","n","t","s">>
confidence_phrases ==
    {PHRASE_ACCORDING_TO, PHRASE_THE_DATA_SHOWS, PHRASE_BASED_ON_THE_DOCUMENTS}

\* f"[BLOCKED: {pii_type} detected in response]"
BlockedPII(pii_type) ==
    <<"[","B","L","O","C","K","E","D",":"," ">> \o pii_type \o <<" ","d","e","t","e","c","t","e","d"," ","i","n"," ","r","e","s","p","o","n","s","e","]">>

\* "[BLOCKED: Potential hallucination - no context but confident answer]"
BLOCKED_HALLUCINATION ==
    <<"[","B","L","O","C","K","E","D",":"," ","P","o","t","e","n","t","i","a","l"," ","h","a","l","l","u","c","i","n","a","t","i","o","n"," ","-"," ","n","o"," ","c","o","n","t","e","x","t"," ","b","u","t"," ","c","o","n","f","i","d","e","n","t"," ","a","n","s","w","e","r","]">>

\* the length test written >= instead of >
guardrail_check_AtLeast(context, response) ==
    LET pii == check_pii(response)
    IN  IF pii[1] THEN <<FALSE, BlockedPII(pii[2])>>
        ELSE IF /\ str_strip(context) = <<>>
                /\ Len(response) >= HALLUCINATION_MIN_LEN
                /\ \E phrase \in confidence_phrases : str_in(phrase, str_lower(response))
             THEN <<FALSE, BLOCKED_HALLUCINATION>>
        ELSE <<TRUE, response>>

\* the blocked message quoting the response it blocks
guardrail_check_Quoting(context, response) ==
    LET pii == check_pii(response)
    IN  IF pii[1] THEN <<FALSE, BlockedPII(pii[2]) \o response>>
        ELSE IF /\ str_strip(context) = <<>>
                /\ Len(response) > HALLUCINATION_MIN_LEN
                /\ \E phrase \in confidence_phrases : str_in(phrase, str_lower(response))
             THEN <<FALSE, BLOCKED_HALLUCINATION>>
        ELSE <<TRUE, response>>

\* guardrail_check(context, response): <<passed, final_response>>
guardrail_check(context, response) ==
    LET pii == check_pii(response)
    IN  IF pii[1] THEN <<FALSE, BlockedPII(pii[2])>>
        ELSE IF /\ str_strip(context) = <<>>
                /\ Len(response) > HALLUCINATION_MIN_LEN
                /\ \E phrase \in confidence_phrases : str_in(phrase, str_lower(response))
             THEN <<FALSE, BLOCKED_HALLUCINATION>>
        ELSE <<TRUE, response>>

----------------------------------------------------------------------------
(* src/data.py and src/retriever.py: the corpus and the SecureRetriever.   *)

PUBLIC == <<"p","u","b","l","i","c">>
PRODUCT == <<"p","r","o","d","u","c","t">>
INSIDER == <<"i","n","s","i","d","e","r">>

ANALYST == <<"a","n","a","l","y","s","t">>
PRODUCT_MANAGER == <<"p","r","o","d","u","c","t","_","m","a","n","a","g","e","r">>
EXECUTIVE == <<"e","x","e","c","u","t","i","v","e">>
\* role strings no branch of the code names
HACKER == <<"h","a","c","k","e","r">>
ANALYST_CAPITALISED == <<"A","n","a","l","y","s","t">>

\* the list ask() tests the role against
VALID_ROLES == <<ANALYST, PRODUCT_MANAGER, EXECUTIVE>>

Range(s) == {s[i] : i \in 1..Len(s)}

\* "10-Q"
SOURCE_10_Q ==
    <<"1","0","-","Q">>
\* "HR Memo"
SOURCE_HR_MEMO ==
    <<"H","R"," ","M","e","m","o">>
\* "Internal Forecast"
SOURCE_INTERNAL_FORECAST ==
    <<"I","n","t","e","r","n","a","l"," ","F","o","r","e","c","a","s","t">>
\* "Internal Memo"
SOURCE_INTERNAL_MEMO ==
    <<"I","n","t","e","r","n","a","l"," ","M","e","m","o">>
\* "Legal Brief"
SOURCE_LEGAL_BRIEF ==
    <<"L","e","g","a","l"," ","B","r","i","e","f">>
\* "Press Release"
SOURCE_PRESS_RELEASE ==
    <<"P","r","e","s","s"," ","R","e","l","e","a","s","e">>
\* "Product Planning"
SOURCE_PRODUCT_PLANNING ==
    <<"P","r","o","d","u","c","t"," ","P","l","a","n","n","i","n","g">>
\* "Product Research"
SOURCE_PRODUCT_RESEARCH ==
    <<"P","r","o","d","u","c","t"," ","R","e","s","e","a","r","c","h">>
\* "financials"
CATEGORY_FINANCIALS ==
    <<"f","i","n","a","n","c","i","a","l","s">>
\* "hr"
CATEGORY_HR ==
    <<"h","r">>
\* "legal"
CATEGORY_LEGAL ==
    <<"l","e","g","a","l">>
\* "operations"
CATEGORY_OPERATIONS ==
    <<"o","p","e","r","a","t","i","o","n","s">>
\* "research"
CATEGORY_RESEARCH ==
    <<"r","e","s","e","a","r","c","h">>
\* "roadmap"
CATEGORY_ROADMAP ==
    <<"r","o","a","d","m","a","p">>

\* NVIDIA Q3 Revenue reported at $18.12 Billion, up 206% YoY. Data Center revenue was the primary driver.
DOC_1 ==
    [page_content |->
        <<"N","V","I","D","I","A"," ","Q","3"," ","R","e","v","e","n","u","e"," ","r","e","p","o","r","t","e","d"," ","a","t"," ","$","1","8",".","1","2"," ","B","i","l","l","i","o","n",","," ","u","p"," ","2","0","6","%"," ","Y","o","Y","."," ","D","a","t","a"," ","C","e","n","t","e","r"," ","r","e","v","e","n","u","e"," ","w","a","s"," ","t","h","e"," ","p","r","i","m","a","r","y"," ","d","r","i","v","e","r",".">>,
     metadata |-> [source |-> SOURCE_10_Q, sensitivity |-> PUBLIC, category |-> CATEGORY_FINANCIALS, year |-> 2024]]
\* The company announced a stock buyback program of $25 Billion.
DOC_2 ==
    [page_content |->
        <<"T","h","e"," ","c","o","m","p","a","n","y"," ","a","n","n","o","u","n","c","e","d"," ","a"," ","s","t","o","c","k"," ","b","u","y","b","a","c","k"," ","p","r","o","g","r","a","m"," ","o","f"," ","$","2","5"," ","B","i","l","l","i","o","n",".">>,
     metadata |-> [source |-> SOURCE_PRESS_RELEASE, sensitivity |-> PUBLIC, category |-> CATEGORY_FINANCIALS, year |-> 2024]]
\* NVIDIA's gaming segment revenue reached $2.86 billion, showing steady consumer demand.
DOC_3 ==
    [page_content |->
        <<"N","V","I","D","I","A","'","s"," ","g","a","m","i","n","g"," ","s","e","g","m","e","n","t"," ","r","e","v","e","n","u","e"," ","r","e","a","c","h","e","d"," ","$","2",".","8","6"," ","b","i","l","l","i","o","n",","," ","s","h","o","w","i","n","g"," ","s","t","e","a","d","y"," ","c","o","n","s","u","m","e","r"," ","d","e","m","a","n","d",".">>,
     metadata |-> [source |-> SOURCE_10_Q, sensitivity |-> PUBLIC, category |-> CATEGORY_FINANCIALS, year |-> 2024]]
\* The company's gross margin improved to 74.0%, up from 70.1% in the previous quarter.
DOC_4 ==
    [page_content |->
        <<"T","h","e"," ","c","o","m","p","a","n","y","'","s"," ","g","r","o","s","s"," ","m","a","r","g","i","n"," ","i","m","p","r","o","v","e","d"," ","t","o"," ","7","4",".","0","%",","," ","u","p"," ","f","r","o","m"," ","7","0",".","1","%"," ","i","n"," ","t","h","e"," ","p","r","e","v","i","o","u","s"," ","q","u","a","r","t","e","r",".">>,
     metadata |-> [source |-> SOURCE_10_Q, sensitivity |-> PUBLIC, category |-> CATEGORY_FINANCIALS, year |-> 2024]]
\* Product Roadmap: Next-gen Blackwell B200 chip targets Q2 2025 launch. Focus on AI training workloads.
DOC_5 ==
    [page_content |->
        <<"P","r","o","d","u","c","t"," ","R","o","a","d","m","a","p",":"," ","N","e","x","t","-","g","e","n"," ","B","l","a","c","k","w","e","l","l"," ","B","2","0","0"," ","c","h","i","p"," ","t","a","r","g","e","t","s"," ","Q","2"," ","2","0","2","5"," ","l","a","u","n","c","h","."," ","F","o","c","u","s"," ","o","n"," ","A","I"," ","t","r","a","i","n","i","n","g"," ","w","o","r","k","l","o","a","d","s",".">>,
     metadata |-> [source |-> SOURCE_PRODUCT_PLANNING, sensitivity |-> PRODUCT, category |-> CATEGORY_ROADMAP, year |-> 2025]]
\* Feature prioritization for H100 successor includes 2x memory bandwidth and improved power efficiency.
DOC_6 ==
    [page_content |->
        <<"F","e","a","t","u","r","e"," ","p","r","i","o","r","i","t","i","z","a","t","i","o","n"," ","f","o","r"," ","H","1","0","0"," ","s","u","c","c","e","s","s","o","r"," ","i","n","c","l","u","d","e","s"," ","2","x"," ","m","e","m","o","r","y"," ","b","a","n","d","w","i","d","t","h"," ","a","n","d"," ","i","m","p","r","o","v","e","d"," ","p","o","w","e","r"," ","e","f","f","i","c","i","e","n","c","y",".">>,
     metadata |-> [source |-> SOURCE_PRODUCT_PLANNING, sensitivity |-> PRODUCT, category |-> CATEGORY_ROADMAP, year |-> 2025]]
\* Customer feedback indicates strong demand for inference-optimized chips in edge computing scenarios.
DOC_7 ==
    [page_content |->
        <<"C","u","s","t","o","m","e","r"," ","f","e","e","d","b","a","c","k"," ","i","n","d","i","c","a","t","e","s"," ","s","t","r","o","n","g"," ","d","e","m","a","n","d"," ","f","o","r"," ","i","n","f","e","r","e","n","c","e","-","o","p","t","i","m","i","z","e","d"," ","c","h","i","p","s"," ","i","n"," ","e","d","g","e"," ","c","o","m","p","u","t","i","n","g"," ","s","c","e","n","a","r","i","o","s",".">>,
     metadata |-> [source |-> SOURCE_PRODUCT_RESEARCH, sensitivity |-> PRODUCT, category |-> CATEGORY_RESEARCH, year |-> 2024]]
\* CONFIDENTIAL: Project 'Blackwell' is facing a 3-month delay due to packaging yield issues at TSMC.
DOC_8 ==
    [page_content |->
        <<"C","O","N","F","I","D","E","N","T","I","A","L",":"," ","P","r","o","j","e","c","t"," ","'","B","l","a","c","k","w","e","l","l","'"," ","i","s"," ","f","a","c","i","n","g"," ","a"," ","3","-","m","o","n","t","h"," ","d","e","l","a","y"," ","d","u","e"," ","t","o"," ","p","a","c","k","a","g","i","n","g"," ","y","i","e","l","d"," ","i","s","s","u","e","s"," ","a","t"," ","T","S","M","C",".">>,
     metadata |-> [source |-> SOURCE_INTERNAL_MEMO, sensitivity |-> INSIDER, category |-> CATEGORY_OPERATIONS, year |-> 2025]]
\* CONFIDENTIAL: Legal team is preparing for a potential antitrust inquiry regarding the ARM acquisition attempt.
DOC_9 ==
    [page_content |->
        <<"C","O","N","F","I","D","E","N","T","I","A","L",":"," ","L","e","g","a","l"," ","t","e","a","m"," ","i","s"," ","p","r","e","p","a","r","i","n","g"," ","f","o","r"," ","a"," ","p","o","t","e","n","t","i","a","l"," ","a","n","t","i","t","r","u","s","t"," ","i","n","q","u","i","r","y"," ","r","e","g","a","r","d","i","n","g"," ","t","h","e"," ","A","R","M"," ","a","c","q","u","i","s","i","t","i","o","n"," ","a","t","t","e","m","p","t",".">>,
     metadata |-> [source |-> SOURCE_LEGAL_BRIEF, sensitivity |-> INSIDER, category |-> CATEGORY_LEGAL, year |-> 2023]]
\* CONFIDENTIAL: Q4 revenue projection internally revised down by 8% due to supply chain constraints.
DOC_10 ==
    [page_content |->
        <<"C","O","N","F","I","D","E","N","T","I","A","L",":"," ","Q","4"," ","r","e","v","e","n","u","e"," ","p","r","o","j","e","c","t","i","o","n"," ","i","n","t","e","r","n","a","l","l","y"," ","r","e","v","i","s","e","d"," ","d","o","w","n"," ","b","y"," ","8","%"," ","d","u","e"," ","t","o"," ","s","u","p","p","l","y"," ","c","h","a","i","n"," ","c","o","n","s","t","r","a","i","n","t","s",".">>,
     metadata |-> [source |-> SOURCE_INTERNAL_FORECAST, sensitivity |-> INSIDER, category |-> CATEGORY_FINANCIALS, year |-> 2024]]
\* CONFIDENTIAL: Executive compensation packages under review, potential 15% increase for retention.
DOC_11 ==
    [page_content |->
        <<"C","O","N","F","I","D","E","N","T","I","A","L",":"," ","E","x","e","c","u","t","i","v","e"," ","c","o","m","p","e","n","s","a","t","i","o","n"," ","p","a","c","k","a","g","e","s"," ","u","n","d","e","r"," ","r","e","v","i","e","w",","," ","p","o","t","e","n","t","i","a","l"," ","1","5","%"," ","i","n","c","r","e","a","s","e"," ","f","o","r"," ","r","e","t","e","n","t","i","o","n",".">>,
     metadata |-> [source |-> SOURCE_HR_MEMO, sensitivity |-> INSIDER, category |-> CATEGORY_HR, year |-> 2024]]

\* RAW_FINANCIAL_DATA as self.documents, the Document objects in ingestion order
documents ==
    <<DOC_1, DOC_2, DOC_3, DOC_4, DOC_5, DOC_6, DOC_7, DOC_8, DOC_9, DOC_10, DOC_11>>

\* metadata.get(key, default)
dict_get(d, key, default) == IF key \in DOMAIN d THEN d[key] ELSE default

\* the product_manager branch returning the product label alone
get_allowed_sensitivities_ProductOnly(user_role) ==
    IF user_role = EXECUTIVE THEN {PUBLIC, PRODUCT, INSIDER}
    ELSE IF user_role = PRODUCT_MANAGER THEN {PRODUCT}
    ELSE {PUBLIC}

\* the executive branch returning what the product_manager branch returns
get_allowed_sensitivities_ExecutiveAsManager(user_role) ==
    IF user_role = EXECUTIVE THEN {PUBLIC, PRODUCT}
    ELSE IF user_role = PRODUCT_MANAGER THEN {PUBLIC, PRODUCT}
    ELSE {PUBLIC}

\* get_allowed_sensitivities(user_role)
get_allowed_sensitivities(user_role) ==
    IF user_role = EXECUTIVE THEN {PUBLIC, PRODUCT, INSIDER}
    ELSE IF user_role = PRODUCT_MANAGER THEN {PUBLIC, PRODUCT}
    ELSE {PUBLIC}  \* analyst or default

(* The embedding model and the FAISS index are external.  A query is       *)
(* modelled by the similarity order it induces on the corpus: a sequence   *)
(* of distinct positions of self.documents, nearest first.  retrieve reads *)
(* nothing of a document but its sensitivity, so orders are enumerated up  *)
(* to the order among documents of equal sensitivity: of those, the one    *)
(* ingested first is always ranked first.                                  *)
NextRanked(order) ==
    {i \in 1..Len(documents) :
        /\ i \notin Range(order)
        /\ \A j \in 1..(i - 1) :
              documents[j].metadata.sensitivity = documents[i].metadata.sensitivity
                  => j \in Range(order)}

RECURSIVE SimilarityOrders(_)
SimilarityOrders(n) ==
    IF n = 0 THEN {<<>>}
    ELSE UNION {{Append(order, i) : i \in NextRanked(order)} : order \in SimilarityOrders(n - 1)}

\* the queries that differ in their n nearest documents
Queries(n) == SimilarityOrders(Min(n, Len(documents)))

\* similarity_search(query, k=n) on the vector store of a retriever whose self.documents is
\* corpus: the n nearest documents, fewer when the corpus is smaller
similarity_search_in(corpus, query, n) == [j \in 1..Min(n, Len(query)) |-> corpus[query[j]]]

\* self.vector_store.similarity_search(query, k=n) on the shipped corpus
similarity_search(query, n) == similarity_search_in(documents, query, n)

\* retrieve without the sensitivity filter
retrieve_Unfiltered(query, user_role, k) ==
    LET all_docs == similarity_search(query, k * 3)
    IN  SubSeq(all_docs, 1, Min(k, Len(all_docs)))

\* retrieve without oversampling: the filter applied to the k nearest documents only
retrieve_NoOversampling(query, user_role, k) ==
    LET allowed == get_allowed_sensitivities(user_role)
        all_docs == similarity_search(query, k)
        filtered_docs ==
            SelectSeq(all_docs,
                      LAMBDA doc : dict_get(doc.metadata, "sensitivity", PUBLIC) \in allowed)
    IN  SubSeq(filtered_docs, 1, Min(k, Len(filtered_docs)))

\* retrieve without the sensitivity filter, on any corpus
retrieve_in_Unfiltered(corpus, query, user_role, k) ==
    LET all_docs == similarity_search_in(corpus, query, k * 3)
    IN  SubSeq(all_docs, 1, Min(k, Len(all_docs)))

\* SecureRetriever.retrieve(query, user_role, k) of a retriever whose self.documents is corpus
retrieve_in(corpus, query, user_role, k) ==
    LET allowed == get_allowed_sensitivities(user_role)
        all_docs == similarity_search_in(corpus, query, k * 3)
        filtered_docs ==
            SelectSeq(all_docs,
                      LAMBDA doc : dict_get(doc.metadata, "sensitivity", PUBLIC) \in allowed)
    IN  SubSeq(filtered_docs, 1, Min(k, Len(filtered_docs)))

\* SecureRetriever.retrieve(query, user_role, k) of the retriever built from RAW_FINANCIAL_DATA
retrieve(query, user_role, k) == retrieve_in(documents, query, user_role, k)

\* s.upper()
str_upper(s) ==
    [i \in 1..Len(s) |->
        IF s[i] \in Lower THEN UpperSeq[CHOOSE j \in 1..Len(LowerSeq) : LowerSeq[j] = s[i]]
        ELSE s[i]]

\* "unknown"
UNKNOWN ==
    <<"u","n","k","n","o","w","n">>
\* "No documents retrieved."
NO_DOCUMENTS_RETRIEVED ==
    <<"N","o"," ","d","o","c","u","m","e","n","t","s"," ","r","e","t","r","i","e","v","e","d",".">>

\* f"{emoji} **[{sensitivity.upper()}]** ({source})\n{doc.page_content[:150]}..."
\* (the three emoji are written by their code points: each is one character)
DisplayEntry(doc) ==
    LET sensitivity == dict_get(doc.metadata, "sensitivity", UNKNOWN)
        source == dict_get(doc.metadata, "source", UNKNOWN)
        emoji == IF sensitivity = PUBLIC THEN <<"U+1F7E2">>
                 ELSE IF sensitivity = PRODUCT THEN <<"U+1F7E1">>
                 ELSE <<"U+1F534">>
    IN  emoji \o <<" ","*","*","[">> \o str_upper(sensitivity) \o <<"]","*","*"," ","(">> \o source \o <<")","\n">>
            \o SubSeq(doc.page_content, 1, Min(150, Len(doc.page_content))) \o <<".",".",".">>

\* SecureRetriever.get_docs_display(query, user_role)
get_docs_display(query, user_role) ==
    LET docs == retrieve(query, user_role, 3)
    IN  IF docs = <<>> THEN NO_DOCUMENTS_RETRIEVED
        ELSE str_join(<<"\n", "\n">>, [i \in 1..Len(docs) |-> DisplayEntry(docs[i])])

----------------------------------------------------------------------------
(* src/guardrails.py: python_calculator.  exec() runs whatever Python the  *)
(* snippet holds; the model interprets the statements below, one per line, *)
(* with the effect each has when Python runs it.                           *)

\* "```python"
FENCE_PYTHON ==
    <<"U+0060","U+0060","U+0060","p","y","t","h","o","n">>
\* "```"
FENCE ==
    <<"U+0060","U+0060","U+0060">>

\* "result = 18.12 * 1.10"
PY_RESULT_MUL ==
    <<"r","e","s","u","l","t"," ","="," ","1","8",".","1","2"," ","*"," ","1",".","1","0">>
\* "x = 5 + 3"
PY_X_ADD ==
    <<"x"," ","="," ","5"," ","+"," ","3">>
\* "result = math.sqrt(16)"
PY_RESULT_SQRT ==
    <<"r","e","s","u","l","t"," ","="," ","m","a","t","h",".","s","q","r","t","(","1","6",")">>
\* "import math"
PY_IMPORT_MATH ==
    <<"i","m","p","o","r","t"," ","m","a","t","h">>
\* "import os"
PY_IMPORT_OS ==
    <<"i","m","p","o","r","t"," ","o","s">>
\* "result = 1 / 0"
PY_DIV_ZERO ==
    <<"r","e","s","u","l","t"," ","="," ","1"," ","/"," ","0">>
\* "result = 5 +"
PY_INCOMPLETE ==
    <<"r","e","s","u","l","t"," ","="," ","5"," ","+">>
\* "open('audit_log.jsonl', 'w').close()"
PY_TRUNCATE_LOG ==
    <<"o","p","e","n","(","'","a","u","d","i","t","_","l","o","g",".","j","s","o","n","l","'",","," ","'","w","'",")",".","c","l","o","s","e","(",")">>
\* "raise SystemExit"
PY_SYSTEM_EXIT ==
    <<"r","a","i","s","e"," ","S","y","s","t","e","m","E","x","i","t">>

\* what Python does with each statement: bind a name to a value (shown as str(value)),
\* raise an Exception, raise SystemExit (a BaseException), act on the file system,
\* or fail to compile
PY_STATEMENTS ==
    {[text |-> PY_RESULT_MUL, kind |-> "assign", name |-> "result", value |-> <<"1","9",".","9","3","2","0","0","0","0","0","0","0","0","0","0","0","2">>],
     [text |-> PY_X_ADD, kind |-> "assign", name |-> "x", value |-> <<"8">>],
     [text |-> PY_RESULT_SQRT, kind |-> "assign", name |-> "result", value |-> <<"4",".","0">>],
     [text |-> PY_IMPORT_MATH, kind |-> "import", name |-> "math", value |-> <<>>],
     [text |-> PY_IMPORT_OS, kind |-> "import", name |-> "os", value |-> <<>>],
     [text |-> PY_DIV_ZERO, kind |-> "raise", name |-> "", value |-> <<"d","i","v","i","s","i","o","n"," ","b","y"," ","z","e","r","o">>],
     [text |-> PY_INCOMPLETE, kind |-> "syntax", name |-> "", value |-> <<"i","n","v","a","l","i","d"," ","s","y","n","t","a","x">>],
     [text |-> PY_TRUNCATE_LOG, kind |-> "truncate_audit_log", name |-> "", value |-> <<>>],
     [text |-> PY_SYSTEM_EXIT, kind |-> "exit", name |-> "", value |-> <<>>]}

\* the statement a line of code is; a blank line does nothing, and a line that is no known
\* statement does not compile
Statement(line) ==
    IF \E s \in PY_STATEMENTS : s.text = line THEN CHOOSE s \in PY_STATEMENTS : s.text = line
    ELSE IF str_strip(line) = <<>> THEN [text |-> line, kind |-> "pass", name |-> "", value |-> <<>>]
    ELSE [text |-> line, kind |-> "syntax", name |-> "", value |-> <<"i","n","v","a","l","i","d"," ","s","y","n","t","a","x">>]

\* str(n) for a line number
str_int(n) ==
    LET digit(d) == <<"0", "1", "2", "3", "4", "5", "6", "7", "8", "9">>[d + 1]
    IN  IF n < 10 THEN <<digit(n)>> ELSE <<digit(n \div 10), digit(n % 10)>>

\* the statements of lines[i..] run in order on local_scope, until one raises
RECURSIVE exec_from(_, _, _, _, _)
exec_from(lines, i, local_scope, effects, executed) ==
    IF i > Len(lines)
    THEN [outcome |-> "done", local_scope |-> local_scope, error |-> <<>>,
          effects |-> effects, executed |-> executed]
    ELSE LET s == Statement(lines[i])
         IN  CASE s.kind = "pass" ->
                    exec_from(lines, i + 1, local_scope, effects, executed)
               [] s.kind \in {"assign", "import"} ->
                    exec_from(lines, i + 1,
                              [n \in DOMAIN local_scope \cup {s.name} |->
                                  IF n = s.name THEN s.value ELSE local_scope[n]],
                              effects, executed + 1)
               [] s.kind = "truncate_audit_log" ->
                    exec_from(lines, i + 1, local_scope, Append(effects, s.kind), executed + 1)
               [] s.kind = "raise" ->
                    [outcome |-> "exception", local_scope |-> local_scope, error |-> s.value,
                     effects |-> effects, executed |-> executed + 1]
               [] OTHER ->  \* raise SystemExit
                    [outcome |-> "system_exit", local_scope |-> local_scope, error |-> <<>>,
                     effects |-> effects, executed |-> executed + 1]

\* exec(clean_code, {}, local_scope): compile all of it, then run it
exec(clean_code, local_scope) ==
    LET lines == str_split(clean_code, <<"\n">>)
        bad == {i \in 1..Len(lines) : Statement(lines[i]).kind = "syntax"}
    IN  IF bad # {}
        THEN LET i == CHOOSE j \in bad : \A l \in bad : j <= l
             IN  [outcome |-> "exception", local_scope |-> local_scope,
                  error |-> Statement(lines[i]).value \o <<" ","(","<","s","t","r","i","n","g",">",","," ","l","i","n","e"," ">> \o str_int(i) \o <<")">>,
                  effects |-> <<>>, executed |-> 0]
        ELSE exec_from(lines, 1, local_scope, <<>>, 0)

\* "Calculated Result: "
CALCULATED_RESULT ==
    <<"C","a","l","c","u","l","a","t","e","d"," ","R","e","s","u","l","t",":"," ">>
\* "Error: Please assign your answer to a variable named 'result'."
ERROR_NO_RESULT ==
    <<"E","r","r","o","r",":"," ","P","l","e","a","s","e"," ","a","s","s","i","g","n"," ","y","o","u","r"," ","a","n","s","w","e","r"," ","t","o"," ","a"," ","v","a","r","i","a","b","l","e"," ","n","a","m","e","d"," ","'","r","e","s","u","l","t","'",".">>
\* "Calculation Error: "
CALCULATION_ERROR ==
    <<"C","a","l","c","u","l","a","t","i","o","n"," ","E","r","r","o","r",":"," ">>

\* the result reported whenever the name is bound, also when a later statement raised
python_calculator_KeepsPartialResult(code_snippet) ==
    LET clean_code == str_strip(str_replace(str_replace(code_snippet, FENCE_PYTHON, <<>>), FENCE, <<>>))
        run == exec(clean_code, [n \in {"math"} |-> <<>>])
    IN  IF run.outcome = "system_exit"
        THEN [raised |-> TRUE, output |-> <<>>, effects |-> run.effects, executed |-> run.executed]
        ELSE [raised |-> FALSE,
              output |-> IF "result" \in DOMAIN run.local_scope
                              THEN CALCULATED_RESULT \o run.local_scope["result"]
                         ELSE IF run.outcome = "exception" THEN CALCULATION_ERROR \o run.error
                         ELSE ERROR_NO_RESULT,
              effects |-> run.effects, executed |-> run.executed]

\* python_calculator(code_snippet): the string it returns, or raised = TRUE when a
\* BaseException that `except Exception` does not catch leaves it; with what the code did
python_calculator(code_snippet) ==
    LET clean_code == str_strip(str_replace(str_replace(code_snippet, FENCE_PYTHON, <<>>), FENCE, <<>>))
        run == exec(clean_code, [n \in {"math"} |-> <<>>])
    IN  IF run.outcome = "system_exit"
        THEN [raised |-> TRUE, output |-> <<>>, effects |-> run.effects, executed |-> run.executed]
        ELSE [raised |-> FALSE,
              output |-> IF run.outcome = "exception" THEN CALCULATION_ERROR \o run.error
                         ELSE IF "result" \in DOMAIN run.local_scope
                              THEN CALCULATED_RESULT \o run.local_scope["result"]
                         ELSE ERROR_NO_RESULT,
              effects |-> run.effects, executed |-> run.executed]

----------------------------------------------------------------------------
(* src/agent.py: the nodes of the workflow, the router and ask().          *)

\* Optional[bool]: None, or the value
None == <<>>
Some(v) == <<v>>

HumanMessage(content) == [type |-> "human", content |-> content]
AIMessage(content) == [type |-> "ai", content |-> content]

\* f"Source ({d.metadata['sensitivity']}, {d.metadata['source']}): {d.page_content}"
ContextEntry(d) ==
    <<"S","o","u","r","c","e"," ","(">> \o d.metadata.sensitivity \o <<",", " ">> \o d.metadata.source
        \o <<")",":"," ">> \o d.page_content

\* "\n\n".join([... for d in docs])
context_text(docs) ==
    str_join(<<"\n", "\n">>, [i \in 1..Len(docs) |-> ContextEntry(docs[i])])

\* "Calculated Result:"
CALCULATED_RESULT_MARK ==
    <<"C","a","l","c","u","l","a","t","e","d"," ","R","e","s","u","l","t",":">>
\* the prompt of the branch taken after a calculation result
PROMPT_AFTER_RESULT ==
    <<"Y","o","u"," ","h","a","v","e"," ","t","h","e"," ","c","a","l","c","u","l","a","t","e","d"," ","d","a","t","a","."," ","N","o","w"," ","a","n","s","w","e","r"," ","t","h","e"," ","u","s","e","r","'","s"," ","q","u","e","s","t","i","o","n"," ","c","o","n","c","i","s","e","l","y"," ","u","s","i","n","g"," ","t","h","e"," ","r","e","s","u","l","t",".">>
TONE_EXECUTIVE ==
    <<"B","e"," ","e","x","t","r","e","m","e","l","y"," ","c","o","n","c","i","s","e","."," ","U","s","e"," ","b","u","l","l","e","t"," ","p","o","i","n","t","s","."," ","F","o","c","u","s"," ","o","n"," ","r","i","s","k","s"," ","a","n","d"," ","s","t","r","a","t","e","g","i","c"," ","i","m","p","a","c","t",".">>
TONE_PRODUCT_MANAGER ==
    <<"F","o","c","u","s"," ","o","n"," ","p","r","o","d","u","c","t"," ","i","m","p","l","i","c","a","t","i","o","n","s","."," ","H","i","g","h","l","i","g","h","t"," ","t","i","m","e","l","i","n","e","s"," ","a","n","d"," ","f","e","a","t","u","r","e"," ","i","m","p","a","c","t","s",".">>
TONE_ANALYST ==
    <<"B","e"," ","d","e","t","a","i","l","e","d"," ","a","n","d"," ","t","h","o","r","o","u","g","h","."," ","C","i","t","e"," ","s","p","e","c","i","f","i","c"," ","d","o","c","u","m","e","n","t","s"," ","f","o","u","n","d",".">>
PROMPT_HEAD ==
    <<"Y","o","u"," ","a","r","e"," ","a"," ","F","i","n","a","n","c","i","a","l"," ","I","n","s","i","g","h","t","s"," ","A","s","s","i","s","t","a","n","t",".","\n","\n","U","S","E","R"," ","R","O","L","E",":"," ">>
PROMPT_INSTRUCTION ==
    <<"\n","I","N","S","T","R","U","C","T","I","O","N",":"," ">>
PROMPT_CONTEXT ==
    <<"\n","\n","R","E","T","R","I","E","V","E","D"," ","C","O","N","T","E","X","T",":","\n">>
PROMPT_RULES ==
    <<"\n","\n","R","U","L","E","S",":","\n","-"," ","O","n","l","y"," ","u","s","e"," ","i","n","f","o","r","m","a","t","i","o","n"," ","f","r","o","m"," ","t","h","e"," ","p","r","o","v","i","d","e","d"," ","c","o","n","t","e","x","t","\n","-"," ","I","f"," ","c","o","n","t","e","x","t"," ","i","s"," ","e","m","p","t","y"," ","o","r"," ","i","r","r","e","l","e","v","a","n","t",","," ","s","a","y"," ","\"","I"," ","d","o","n","'","t"," ","h","a","v","e"," ","a","c","c","e","s","s"," ","t","o"," ","t","h","a","t"," ","i","n","f","o","r","m","a","t","i","o","n",".","\"","\n","-"," ","N","e","v","e","r"," ","m","a","k","e"," ","u","p"," ","f","i","n","a","n","c","i","a","l"," ","d","a","t","a","\n","-"," ","I","f"," ","t","h","e"," ","u","s","e","r"," ","a","s","k","s"," ","f","o","r"," ","a"," ","C","A","L","C","U","L","A","T","I","O","N"," ","(","g","r","o","w","t","h",","," ","p","e","r","c","e","n","t","a","g","e","s",","," ","p","r","o","j","e","c","t","i","o","n","s",")",","," ","w","r","i","t","e"," ","P","y","t","h","o","n"," ","c","o","d","e"," ","t","o"," ","c","o","m","p","u","t","e"," ","i","t",".","\n"," "," ","W","r","a","p"," ","c","o","d","e"," ","i","n"," ","U+0060","U+0060","U+0060","p","y","t","h","o","n"," ","b","l","o","c","k","s"," ","a","n","d"," ","a","s","s","i","g","n"," ","t","h","e"," ","f","i","n","a","l"," ","v","a","l","u","e"," ","t","o"," ","a"," ","v","a","r","i","a","b","l","e"," ","n","a","m","e","d"," ","'","r","e","s","u","l","t","'",".","\n">>

tone_for(user_role) ==
    IF user_role = EXECUTIVE THEN TONE_EXECUTIVE
    ELSE IF user_role = PRODUCT_MANAGER THEN TONE_PRODUCT_MANAGER
    ELSE TONE_ANALYST

\* the system_prompt generate_node builds from the state
system_prompt(state) ==
    LET last_message == state.messages[Len(state.messages)]
    IN  IF last_message.type = "human" /\ str_in(CALCULATED_RESULT_MARK, last_message.content)
        THEN PROMPT_AFTER_RESULT
        ELSE PROMPT_HEAD \o state.user_role \o PROMPT_INSTRUCTION \o tone_for(state.user_role)
                 \o PROMPT_CONTEXT \o state.context \o PROMPT_RULES

\* the router without its test for a code block: every reply ends the run
should_continue_AlwaysEnd(state) == "END"

\* should_continue(state): "execute_tool" or END
should_continue(state) ==
    LET last_message == state.messages[Len(state.messages)]
    IN  IF str_in(FENCE_PYTHON, last_message.content) THEN "execute_tool" ELSE "END"

\* the code block tool_node extracts: content.split("```python")[1].split("```")[0]
code_block_of(content) == str_split(str_split(content, FENCE_PYTHON)[2], FENCE)[1]

\* the entry log_access builds
log_entry(now, user_role, query, docs_accessed, response) ==
    [timestamp |-> now,
     user_role |-> user_role,
     query |-> query,
     docs_sensitivity |->
        [i \in 1..Len(docs_accessed) |-> dict_get(docs_accessed[i].metadata, "sensitivity", UNKNOWN)],
     docs_sources |->
        [i \in 1..Len(docs_accessed) |-> dict_get(docs_accessed[i].metadata, "source", UNKNOWN)],
     response_length |-> Len(response),
     guardrail_triggered |-> FALSE]

\* f"<cross mark> Invalid role: {role}. Use 'analyst', 'product_manager', or 'executive'"
InvalidRoleMessage(role) ==
    <<"U+274C"," ","I","n","v","a","l","i","d"," ","r","o","l","e",":"," ">> \o role
        \o <<"."," ","U","s","e"," ","'","a","n","a","l","y","s","t","'",","," ","'","p","r","o","d","u","c","t","_","m","a","n","a","g","e","r","'",","," ","o","r"," ","'","e","x","e","c","u","t","i","v","e","'">>

Requests == {"r1", "r2"}

\* the recursion_limit of agent.invoke(inputs) when no config is passed: LangGraph's default
RECURSION_LIMIT == 25

\* ask() has not returned
NoResult == [kind |-> "none", error |-> "", text |-> <<>>]
Returned(text) == [kind |-> "value", error |-> "", text |-> text]
Raised(error) == [kind |-> "exception", error |-> error, text |-> <<>>]

(* One slot per ask() in flight.  question, role: the arguments; state:    *)
(* the FinancialState of the graph run; steps: the supersteps the graph    *)
(* has run; result: what ask() gave its caller.  The other fields are      *)
(* history: the calls made on behalf of the request, the documents         *)
(* retrieve returned to it and every reply of the model with the           *)
(* guardrail's verdict on it.                                              *)
IdleRequest ==
    [pc |-> "idle", question |-> <<>>, role |-> <<>>,
     state |-> [messages |-> <<>>, user_role |-> <<>>, context |-> <<>>,
                guardrail_triggered |-> None],
     steps |-> 0, result |-> NoResult,
     retrievals |-> 0, llm_calls |-> 0, evaluations |-> 0,
     my_docs |-> <<>>, replies |-> <<>>]

\* no log_access call in progress: no file object, nothing buffered
NoWriter == [pc |-> "idle", entry |-> <<>>, f |-> [mode |-> "", pos |-> 0, buffer |-> <<>>]]

WorkflowIdle ==
    /\ req = [r \in Requests |-> IdleRequest]
    /\ retrieved_docs = <<>>
    /\ audit_log = <<>>
    /\ log_calls = <<>>
    /\ clock = 0
    /\ audit_file = <<>>
    /\ writers = [r \in Requests |-> NoWriter]

workflow_vars == <<req, retrieved_docs, audit_log, log_calls, clock, audit_file, writers>>

\* the role test of ask() left out
RoleIsValid_Always(role) == TRUE

\* role in ["analyst", "product_manager", "executive"]
RoleIsValid(role) == role \in Range(VALID_ROLES)

\* an exception leaves the node, agent.invoke and ask()
Raise(rq, error) == [rq EXCEPT !.pc = "raised", !.result = Raised(error)]

\* the edges of the graph: retrieve -> generate, tool_executor -> generate, and the
\* conditional edges of generate, {"execute_tool": "tool_executor", END: END}
EdgeTarget(route) == IF route = "execute_tool" THEN "tool_executor" ELSE route

\* ask() returning result['messages'][0].content: the question instead of the answer
AfterStep_ReturnsFirstMessage(rq, route) ==
    LET steps == rq.steps + 1
        next == EdgeTarget(route)
    IN  IF next = "END"
        THEN [rq EXCEPT !.pc = "done", !.steps = steps,
                        !.result = Returned(rq.state.messages[1].content)]
        ELSE IF steps >= RECURSION_LIMIT
        THEN [Raise(rq, "GraphRecursionError") EXCEPT !.steps = steps]
        ELSE [rq EXCEPT !.pc = next, !.steps = steps]

\* the graph after one more superstep that left the state of rq and took the edge to
\* next: END ends the run and ask() returns the content of the last message;
\* otherwise the run goes on, unless the recursion limit is used up
AfterStep(rq, route) ==
    LET steps == rq.steps + 1
        next == EdgeTarget(route)
    IN  IF next = "END"
        THEN [rq EXCEPT !.pc = "done", !.steps = steps,
                        !.result = Returned(rq.state.messages[Len(rq.state.messages)].content)]
        ELSE IF steps >= RECURSION_LIMIT
        THEN [Raise(rq, "GraphRecursionError") EXCEPT !.steps = steps]
        ELSE [rq EXCEPT !.pc = next, !.steps = steps]

\* ask(question, role), up to agent.invoke(inputs)
ask(r, question, role) ==
    /\ req[r].pc = "idle"
    /\ req' = [req EXCEPT ![r] =
                 IF ~RoleIsValid(role)
                 THEN [@ EXCEPT !.pc = "rejected", !.question = question, !.role = role,
                                !.result = Returned(InvalidRoleMessage(role))]
                 ELSE [@ EXCEPT !.pc = "retrieve", !.question = question, !.role = role,
                                !.state = [messages |-> <<HumanMessage(question)>>,
                                           user_role |-> role, context |-> <<>>,
                                           guardrail_triggered |-> None]]]
    /\ UNCHANGED <<retrieved_docs, audit_log, log_calls, clock, audit_file, writers, trace>>

\* retrieve_node(state); query is the similarity order of state["messages"][-1].content,
\* fails: the retriever (embedding model, index) raises
retrieve_node(r, query, fails) ==
    /\ req[r].pc = "retrieve"
    /\ IF fails
       THEN /\ req' = [req EXCEPT ![r] = Raise([@ EXCEPT !.retrievals = @ + 1], "RetrieverError")]
            /\ UNCHANGED retrieved_docs
       ELSE LET docs == retrieve(query, req[r].state.user_role, 3)
            IN  /\ retrieved_docs' = docs
                /\ req' = [req EXCEPT ![r] =
                             AfterStep([@ EXCEPT !.state.context = context_text(docs),
                                                 !.retrievals = @ + 1, !.my_docs = docs],
                                       "generate")]
    /\ UNCHANGED <<audit_log, log_calls, clock, audit_file, writers, trace>>

\* messages declared without a reducer: what a node returns replaces the history
add_messages_Overwrite(left, right) == right

\* messages: Annotated[List[AnyMessage], add_messages]: the messages a node returns
\* are appended to the history (they carry no id of an earlier message)
add_messages(left, right) == left \o right

\* every reply that passed logged, the calculation steps too
is_final_reply_Always(reply) == TRUE

\* the test generate_node makes before log_access: "```python" not in response.content
is_final_reply(reply) == ~str_in(FENCE_PYTHON, reply)

\* the blocked reply itself put in the messages
blocked_message_Unsubstituted(final_response, reply) == AIMessage(reply)

\* the message generate_node returns when the guardrail has blocked the reply:
\* HumanMessage(content=final_response)
blocked_message(final_response, reply) == HumanMessage(final_response)

\* the guardrail run on the final answers only: a reply with a code block goes through
guardrail_verdict_SkipsDirectives(context, reply) ==
    IF str_in(FENCE_PYTHON, reply) THEN <<TRUE, reply>> ELSE guardrail_check(context, reply)

\* is_safe, final_response = guardrail_check(state['context'], response.content)
guardrail_verdict(context, reply) == guardrail_check(context, reply)

\* generate_node(state) and the router after it; reply is response.content,
\* fault "llm": llm.invoke raises; fault "log": the append to AUDIT_LOG_FILE raises
generate_node(r, reply, fault) ==
    /\ req[r].pc = "generate"
    /\ LET state == req[r].state
           messages == state.messages
           called == [req[r] EXCEPT !.llm_calls = @ + 1]
           check == guardrail_verdict(state.context, reply)
           replied == [called EXCEPT !.replies = Append(@, [content |-> reply, passed |-> check[1]])]
           blocked == [replied EXCEPT !.state.messages = add_messages(@, <<blocked_message(check[2], reply)>>),
                                      !.state.guardrail_triggered = Some(TRUE)]
           passed == [replied EXCEPT !.state.messages = add_messages(@, <<AIMessage(reply)>>),
                                     !.state.guardrail_triggered = Some(FALSE)]
       IN  IF fault = "llm"
           THEN /\ req' = [req EXCEPT ![r] = Raise(called, "LLMError")]
                /\ UNCHANGED <<audit_log, log_calls, clock>>
           ELSE IF ~check[1]
           THEN /\ req' = [req EXCEPT ![r] = AfterStep(blocked, should_continue(blocked.state))]
                /\ UNCHANGED <<audit_log, log_calls, clock>>
           ELSE IF is_final_reply(reply)
           THEN \* log_access(user_role, messages[-1].content, _retrieved_docs, response.content)
                /\ log_calls' = Append(log_calls,
                                       [request |-> r, user_role |-> state.user_role,
                                        query |-> messages[Len(messages)].content,
                                        docs_accessed |-> retrieved_docs, response |-> reply])
                /\ clock' = clock + 1
                /\ IF fault = "log"
                   THEN /\ req' = [req EXCEPT ![r] = Raise(replied, "OSError")]
                        /\ UNCHANGED audit_log
                   ELSE /\ audit_log' =
                              Append(audit_log,
                                     log_entry(clock, state.user_role,
                                               messages[Len(messages)].content,
                                               retrieved_docs, reply))
                        /\ req' = [req EXCEPT ![r] =
                                     AfterStep(passed, should_continue(passed.state))]
           ELSE /\ req' = [req EXCEPT ![r] = AfterStep(passed, should_continue(passed.state))]
                /\ UNCHANGED <<audit_log, log_calls, clock>>
    /\ UNCHANGED <<retrieved_docs, audit_file, writers, trace>>

\* the edge out of tool_executor drawn to END: the outcome of the calculation is the answer
TOOL_EXECUTOR_EDGE_End == "END"

\* the edge out of tool_executor drawn to retrieve: the retrieval is run again on the outcome
TOOL_EXECUTOR_EDGE_Retrieve == "retrieve"

\* workflow.add_edge("tool_executor", "generate")
TOOL_EXECUTOR_EDGE == "generate"

\* tool_node(state)
tool_node(r) ==
    /\ req[r].pc = "tool_executor"
    /\ LET messages == req[r].state.messages
           content == messages[Len(messages)].content
       IN  IF str_in(FENCE_PYTHON, content)
           THEN LET out == python_calculator(code_block_of(content))
                    ran == [req[r] EXCEPT !.evaluations = @ + 1]
                IN  /\ audit_log' = IF "truncate_audit_log" \in Range(out.effects)
                                    THEN <<>> ELSE audit_log
                    /\ req' = [req EXCEPT ![r] =
                                 IF out.raised THEN Raise(ran, "SystemExit")
                                 ELSE AfterStep([ran EXCEPT !.state.messages =
                                                    add_messages(@, <<HumanMessage(out.output)>>)],
                                                TOOL_EXECUTOR_EDGE)]
           ELSE /\ req' = [req EXCEPT ![r] =
                             AfterStep([@ EXCEPT !.state.messages = add_messages(@, <<>>)],
                                       TOOL_EXECUTOR_EDGE)]
                /\ UNCHANGED audit_log
    /\ UNCHANGED <<retrieved_docs, log_calls, clock, audit_file, writers, trace>>

----------------------------------------------------------------------------
(* Spec: two ask() calls in flight, interleaved at the nodes of the graph. *)
(* The questions, the role strings, the similarity orders of the questions *)
(* and the replies of the model are drawn from the sets below.             *)

\* "Test query"
Q_TEST ==
    <<"T","e","s","t"," ","q","u","e","r","y">>
Questions == {Q_TEST}

AskRoles == Range(VALID_ROLES) \cup {HACKER}

\* the nine nearest documents of a question: the insider ones first, or all three
\* sensitivities interleaved
WorkflowQueries ==
    {<<8, 9, 10, 11, 5, 6, 7, 1, 2>>,
     <<8, 1, 5, 2, 9, 6, 3, 10, 7>>}

\* "Revenue was $18 billion"
REPLY_ANSWER ==
    <<"R","e","v","e","n","u","e"," ","w","a","s"," ","$","1","8"," ","b","i","l","l","i","o","n">>
\* "The SSN is 123-45-6789"
REPLY_SSN ==
    <<"T","h","e"," ","S","S","N"," ","i","s"," ","1","2","3","-","4","5","-","6","7","8","9">>
\* "```python\nresult = 18.12 * 1.10\n```"
REPLY_CALC ==
    <<"U+0060","U+0060","U+0060","p","y","t","h","o","n","\n","r","e","s","u","l","t"," ","="," ","1","8",".","1","2"," ","*"," ","1",".","1","0","\n","U+0060","U+0060","U+0060">>
\* "```python\nx = 5 + 3\n```"
REPLY_CALC_NO_RESULT ==
    <<"U+0060","U+0060","U+0060","p","y","t","h","o","n","\n","x"," ","="," ","5"," ","+"," ","3","\n","U+0060","U+0060","U+0060">>
\* "Call 555-123-4567\n```python\nresult = 18.12 * 1.10\n```"
REPLY_CALC_PHONE ==
    <<"C","a","l","l"," ","5","5","5","-","1","2","3","-","4","5","6","7","\n","U+0060","U+0060","U+0060","p","y","t","h","o","n","\n","r","e","s","u","l","t"," ","="," ","1","8",".","1","2"," ","*"," ","1",".","1","0","\n","U+0060","U+0060","U+0060">>

Replies == {REPLY_ANSWER, REPLY_SSN, REPLY_CALC, REPLY_CALC_PHONE}

\* a reply that sends the run to tool_executor
IsDirective(context, reply) ==
    str_in(FENCE_PYTHON, reply) /\ guardrail_verdict(context, reply)[1]

\* the model asks for at most MaxToolRounds calculations per request
MaxToolRounds == 1

Init == WorkflowIdle /\ trace = <<>>

Ask(r) == \E question \in Questions, role \in AskRoles : ask(r, question, role)

Retrieve(r) ==
    /\ req[r].pc = "retrieve"
    /\ \/ retrieve_node(r, <<>>, TRUE)
       \/ \E query \in WorkflowQueries : retrieve_node(r, query, FALSE)

Generate(r) ==
    /\ req[r].pc = "generate"
    /\ \/ generate_node(r, REPLY_ANSWER, "llm")
       \/ \E reply \in Replies, fault \in {"none", "log"} :
             /\ fault = "log" => reply = REPLY_ANSWER
             /\ IsDirective(req[r].state.context, reply) => req[r].evaluations < MaxToolRounds
             /\ generate_node(r, reply, fault)

ToolExecutor(r) == tool_node(r)

Next == \E r \in Requests : Ask(r) \/ Retrieve(r) \/ Generate(r) \/ ToolExecutor(r)

Spec == Init /\ [][Next]_vars

----------------------------------------------------------------------------
(* SpecLoop: one ask() whose model answers every prompt with a             *)
(* calculation directive; nothing else fails.                              *)

LoopAsk == \E question \in Questions, role \in Range(VALID_ROLES) : ask("r1", question, role)

LoopRetrieve == \E query \in WorkflowQueries : retrieve_node("r1", query, FALSE)

LoopGenerate ==
    \E reply \in {REPLY_CALC} : generate_node("r1", reply, "none")

LoopToolExecutor == tool_node("r1")

NextLoop == LoopAsk \/ LoopRetrieve \/ LoopGenerate \/ LoopToolExecutor

SpecLoop == Init /\ [][NextLoop]_vars
----------------------------------------------------------------------------
(* log_access, write by write: the entry is built, AUDIT_LOG_FILE is       *)
(* opened, json.dumps(log_entry) + "\n" is written to the file object and  *)
(* the with block closes it.  A text file object buffers what is written   *)
(* and hands it to the operating system in one write when it is closed.    *)

\* the file opened for writing from its start
AUDIT_OPEN_MODE_Write == "w"

\* open(AUDIT_LOG_FILE, "a")
AUDIT_OPEN_MODE == "a"

\* open(path, mode) on a file of the given content: mode "w" empties the file, mode "a"
\* leaves it; the file object starts at position 0 with nothing buffered
file_open(content, mode) ==
    [content |-> IF mode = "w" THEN <<>> ELSE content,
     f |-> [mode |-> mode, pos |-> 0, buffer |-> <<>>]]

\* f.write(text): the text goes to the buffer of the file object
file_write(f, text) == [f EXCEPT !.buffer = @ \o text]

\* the write(2) of the buffer when f is closed: in mode "a" (O_APPEND) at the end of the
\* file, whatever other writers did since the open; otherwise at the position of f, over
\* what the file holds there ("U+0000" fills a gap left before it)
os_write(content, f) ==
    IF f.buffer = <<>> THEN content
    ELSE IF f.mode = "a" THEN content \o f.buffer
    ELSE LET end == f.pos + Len(f.buffer)
             n == IF Len(content) > end THEN Len(content) ELSE end
         IN  [i \in 1..n |-> IF i > f.pos /\ i <= end THEN f.buffer[i - f.pos]
                             ELSE IF i <= Len(content) THEN content[i]
                             ELSE "U+0000"]

\* 2024-01-01T00:00:
ISO_PREFIX ==
    <<"2","0","2","4","-","0","1","-","0","1","T","0","0",":","0","0",":">>
\* {"timestamp": 
KEY_TIMESTAMP ==
    <<"{","\"","t","i","m","e","s","t","a","m","p","\"",":"," ">>
\* , "user_role": 
KEY_USER_ROLE ==
    <<","," ","\"","u","s","e","r","_","r","o","l","e","\"",":"," ">>
\* , "query": 
KEY_QUERY ==
    <<","," ","\"","q","u","e","r","y","\"",":"," ">>
\* , "docs_sensitivity": 
KEY_DOCS_SENSITIVITY ==
    <<","," ","\"","d","o","c","s","_","s","e","n","s","i","t","i","v","i","t","y","\"",":"," ">>
\* , "docs_sources": 
KEY_DOCS_SOURCES ==
    <<","," ","\"","d","o","c","s","_","s","o","u","r","c","e","s","\"",":"," ">>
\* , "response_length": 
KEY_RESPONSE_LENGTH ==
    <<","," ","\"","r","e","s","p","o","n","s","e","_","l","e","n","g","t","h","\"",":"," ">>
\* , "guardrail_triggered": 
KEY_GUARDRAIL_TRIGGERED ==
    <<","," ","\"","g","u","a","r","d","r","a","i","l","_","t","r","i","g","g","e","r","e","d","\"",":"," ">>

\* json.dumps of one character of a str (ensure_ascii=True)
json_char(c) ==
    CASE c = "\"" -> <<"\\", "\"">>
      [] c = "\\" -> <<"\\", "\\">>
      [] c = "\n" -> <<"\\", "n">>
      [] c = "\t" -> <<"\\", "t">>
      [] c = "U+274C" -> <<"\\", "u", "2", "7", "4", "c">>
      [] OTHER -> <<c>>

\* json.dumps(s) for a str
RECURSIVE json_str_from(_, _)
json_str_from(s, i) ==
    IF i > Len(s) THEN <<"\"">> ELSE json_char(s[i]) \o json_str_from(s, i + 1)

json_str(s) == <<"\"">> \o json_str_from(s, 1)

\* json.dumps(n) for an int >= 0
RECURSIVE json_int(_)
json_int(n) ==
    LET digit == <<"0", "1", "2", "3", "4", "5", "6", "7", "8", "9">>[(n % 10) + 1]
    IN  IF n < 10 THEN <<digit>> ELSE json_int(n \div 10) \o <<digit>>

\* json.dumps(l) for a list of str
json_list(l) ==
    <<"[">> \o str_join(<<",", " ">>, [i \in 1..Len(l) |-> json_str(l[i])]) \o <<"]">>

\* datetime.isoformat() of the logical time now: seconds after 2024-01-01T00:00:00
isoformat(now) ==
    ISO_PREFIX \o (IF now % 60 < 10 THEN <<"0">> ELSE <<>>) \o json_int(now % 60)

\* json.dumps(log_entry): the keys in insertion order, ", " and ": " as separators
json_dumps(entry) ==
    KEY_TIMESTAMP \o json_str(isoformat(entry.timestamp))
    \o KEY_USER_ROLE \o json_str(entry.user_role)
    \o KEY_QUERY \o json_str(entry.query)
    \o KEY_DOCS_SENSITIVITY \o json_list(entry.docs_sensitivity)
    \o KEY_DOCS_SOURCES \o json_list(entry.docs_sources)
    \o KEY_RESPONSE_LENGTH \o json_int(entry.response_length)
    \o KEY_GUARDRAIL_TRIGGERED
    \o (IF entry.guardrail_triggered THEN <<"t","r","u","e">> ELSE <<"f","a","l","s","e">>)
    \o <<"}">>

\* json.dumps(log_entry) + "\n"
log_line(entry) == json_dumps(entry) \o <<"\n">>

----------------------------------------------------------------------------
(* SpecLog: the requests call log_access concurrently; each call is three  *)
(* steps (open, write, close) that interleave with the other's.            *)

\* a question of two lines, with quotes and a backslash
Q_TWO_LINES ==
    <<"C","o","m","p","a","r","e"," ","\"","Q","3","\"","\n","a","n","d"," ","Q","4","\\","F","Y">>
\* "Calculated Result: 19.932000000000002"
Q_CALC_RESULT ==
    <<"C","a","l","c","u","l","a","t","e","d"," ","R","e","s","u","l","t",":"," ","1","9",".","9","3","2","0","0","0","0","0","0","0","0","0","0","0","2">>

\* the arguments of the log_access calls: user_role, query, docs_accessed, response
LogArguments ==
    {<<ANALYST, Q_TEST, <<DOC_1, DOC_2>>, REPLY_ANSWER>>,
     <<EXECUTIVE, Q_TWO_LINES, <<DOC_8>>, REPLY_ANSWER>>,
     <<PRODUCT_MANAGER, Q_CALC_RESULT, <<>>, TONE_ANALYST>>}

\* log_access calls made in all
MaxLogCalls == 3

InitLog == WorkflowIdle /\ trace = <<>>

\* log_access up to open(AUDIT_LOG_FILE, "a"): the entry is built, the file is opened
LogAccessOpen(r) ==
    /\ writers[r].pc \in {"idle", "returned"}
    /\ Len(log_calls) < MaxLogCalls
    /\ \E args \in LogArguments :
          LET opened == file_open(audit_file, AUDIT_OPEN_MODE)
          IN  /\ log_calls' = Append(log_calls,
                                     [request |-> r, user_role |-> args[1], query |-> args[2],
                                      docs_accessed |-> args[3], response |-> args[4]])
              /\ audit_file' = opened.content
              /\ writers' = [writers EXCEPT ![r] =
                               [pc |-> "opened",
                                entry |-> log_entry(clock, args[1], args[2], args[3], args[4]),
                                f |-> opened.f]]
    /\ clock' = clock + 1
    /\ UNCHANGED <<req, retrieved_docs, audit_log, trace>>

\* f.write(json.dumps(log_entry) + "\n")
LogAccessWrite(r) ==
    /\ writers[r].pc = "opened"
    /\ writers' = [writers EXCEPT ![r].pc = "written",
                                  ![r].f = file_write(@, log_line(writers[r].entry))]
    /\ UNCHANGED <<req, retrieved_docs, audit_log, log_calls, clock, audit_file, trace>>

\* the end of the with block closes f, which writes its buffer; return log_entry
LogAccessClose(r) ==
    /\ writers[r].pc = "written"
    /\ audit_file' = os_write(audit_file, writers[r].f)
    /\ writers' = [writers EXCEPT ![r].pc = "returned",
                                  ![r].f = [mode |-> "", pos |-> 0, buffer |-> <<>>]]
    /\ trace' = Append(trace, [fn |-> "log_access", request |-> r, entry |-> writers[r].entry])
    /\ UNCHANGED <<req, retrieved_docs, audit_log, log_calls, clock>>

NextLog == \E r \in Requests : LogAccessOpen(r) \/ LogAccessWrite(r) \/ LogAccessClose(r)

SpecLog == InitLog /\ [][NextLog]_vars


----------------------------------------------------------------------------
(* The retriever as a function: SpecRetrieve makes one call of retrieve or *)
(* of get_docs_display, for any role string, k and query, and records it.  *)

MaxK == 3

RetrieveRoles == {ANALYST, PRODUCT_MANAGER, EXECUTIVE, HACKER, ANALYST_CAPITALISED}

InitRetrieve == WorkflowIdle /\ trace = <<>>

CallRetrieve ==
    /\ trace = <<>>
    /\ \E user_role \in RetrieveRoles, k \in 1..MaxK :
          \E query \in Queries(k * 3) :
              trace' = <<[fn |-> "retrieve", query |-> query, user_role |-> user_role, k |-> k,
                          allowed |-> get_allowed_sensitivities(user_role),
                          docs |-> retrieve(query, user_role, k)]>>
    /\ UNCHANGED workflow_vars

CallGetDocsDisplay ==
    /\ trace = <<>>
    /\ \E user_role \in RetrieveRoles :
          \E query \in Queries(3 * 3) :
              trace' = <<[fn |-> "get_docs_display", query |-> query, user_role |-> user_role,
                          display |-> get_docs_display(query, user_role)]>>
    /\ UNCHANGED workflow_vars

NextRetrieve == CallRetrieve \/ CallGetDocsDisplay

SpecRetrieve == InitRetrieve /\ [][NextRetrieve]_vars

RetrieveCalls == {trace[i] : i \in {j \in 1..Len(trace) : trace[j].fn = "retrieve"}}
DisplayCalls == {trace[i] : i \in {j \in 1..Len(trace) : trace[j].fn = "get_docs_display"}}

\* the access policy of the specification, role by role
PolicyLabels(role) ==
    IF role = ANALYST THEN {PUBLIC}
    ELSE IF role = PRODUCT_MANAGER THEN {PUBLIC, PRODUCT}
    ELSE IF role = EXECUTIVE THEN {PUBLIC, PRODUCT, INSIDER}
    ELSE {}

(* C1: every document retrieve(query, role, k) returns has a sensitivity   *)
(* in get_allowed_sensitivities(role), for every role string, query and    *)
(* k >= 1: an analyst result holds public documents only and a             *)
(* product_manager result holds no insider document.                       *)
C1_AccessInvariant ==
    \A c \in RetrieveCalls :
        \A i \in 1..Len(c.docs) :
            /\ c.docs[i].metadata.sensitivity \in c.allowed
            /\ c.user_role = ANALYST => c.docs[i].metadata.sensitivity = PUBLIC
            /\ c.user_role = PRODUCT_MANAGER => c.docs[i].metadata.sensitivity # INSIDER

\* an analyst call whose nearest document is an insider one, and which still returns documents
C1_Witness ==
    \E c \in RetrieveCalls :
        /\ c.user_role = ANALYST /\ c.k = 3
        /\ documents[c.query[1]].metadata.sensitivity = INSIDER
        /\ documents[c.query[2]].metadata.sensitivity = PRODUCT
        /\ Len(c.docs) = 3

(* C3: a role outside analyst, product_manager, executive is granted no    *)
(* sensitivity label, so retrieve and get_docs_display return no document  *)
(* for it.                                                                 *)
C3_UnknownRoleGrantsNothing ==
    /\ \A c \in RetrieveCalls :
          c.user_role \notin Range(VALID_ROLES) => (c.allowed = {} /\ c.docs = <<>>)
    /\ \A c \in DisplayCalls :
          c.user_role \notin Range(VALID_ROLES) => c.display = NO_DOCUMENTS_RETRIEVED

----------------------------------------------------------------------------
(* The calculator as a function: SpecCalc calls python_calculator once on  *)
(* a snippet of up to MaxStatements lines and records the call.            *)

MaxStatements == 3

RECURSIVE Snippets(_)
Snippets(n) ==
    IF n = 0 THEN {<<>>}
    ELSE Snippets(n - 1)
         \cup {IF code = <<>> THEN s.text ELSE code \o <<"\n">> \o s.text :
                  code \in Snippets(n - 1), s \in PY_STATEMENTS}

InitCalc == WorkflowIdle /\ trace = <<>>

CallCalculator ==
    /\ trace = <<>>
    /\ \E code_snippet \in Snippets(MaxStatements) :
          LET out == python_calculator(code_snippet)
          IN  trace' = <<[fn |-> "python_calculator", code_snippet |-> code_snippet,
                          raised |-> out.raised, output |-> out.output,
                          effects |-> out.effects, executed |-> out.executed]>>
    /\ UNCHANGED workflow_vars

NextCalc == CallCalculator

SpecCalc == InitCalc /\ [][NextCalc]_vars

CalcCalls == {trace[i] : i \in {j \in 1..Len(trace) : trace[j].fn = "python_calculator"}}

\* the restricted grammar of the specification: arithmetic assignments, math functions included
InArithmeticGrammar(code) ==
    \A line \in Range(str_split(code, <<"\n">>)) :
        line \in {PY_RESULT_MUL, PY_X_ADD, PY_RESULT_SQRT, PY_DIV_ZERO}

StartsWith(s, prefix) == Len(s) >= Len(prefix) /\ SubSeq(s, 1, Len(prefix)) = prefix

(* C7: for a calculation request outside the arithmetic grammar (an        *)
(* import, a file operation, any other statement) python_calculator        *)
(* returns an error outcome and runs none of the request.                  *)
C7_RejectsNonArithmetic ==
    \A c \in CalcCalls :
        ~InArithmeticGrammar(c.code_snippet) =>
            /\ ~c.raised
            /\ ~StartsWith(c.output, CALCULATED_RESULT)
            /\ c.executed = 0
            /\ c.effects = <<>>

----------------------------------------------------------------------------
(* The guardrail as a function: SpecGuard calls guardrail_check twice on   *)
(* contexts and responses drawn from the sets below and records each call. *)

\* "Revenue was $18 billion"
TXT_REVENUE ==
    <<"R","e","v","e","n","u","e"," ","w","a","s"," ","$","1","8"," ","b","i","l","l","i","o","n">>
\* "The SSN is 123-45-6789"
TXT_SSN ==
    <<"T","h","e"," ","S","S","N"," ","i","s"," ","1","2","3","-","4","5","-","6","7","8","9">>
\* "Card: 4111-1111-1111-1111"
TXT_CARD ==
    <<"C","a","r","d",":"," ","4","1","1","1","-","1","1","1","1","-","1","1","1","1","-","1","1","1","1">>
\* "Contact: john@company.com"
TXT_EMAIL ==
    <<"C","o","n","t","a","c","t",":"," ","j","o","h","n","@","c","o","m","p","a","n","y",".","c","o","m">>
\* "Call 555-123-4567"
TXT_PHONE ==
    <<"C","a","l","l"," ","5","5","5","-","1","2","3","-","4","5","6","7">>
\* "Call 555-123-4567 or john@company.com": the phone number comes first in the text
TXT_PHONE_THEN_EMAIL ==
    <<"C","a","l","l"," ","5","5","5","-","1","2","3","-","4","5","6","7"," ","o","r"," ","j","o","h","n","@","c","o","m","p","a","n","y",".","c","o","m">>
\* "ID 123-45-67890": one digit too many for an SSN
TXT_NEAR_SSN ==
    <<"I","D"," ","1","2","3","-","4","5","-","6","7","8","9","0">>
\* "According to the data shows revenue tripled this quarter"
TXT_CONFIDENT ==
    <<"A","c","c","o","r","d","i","n","g"," ","t","o"," ","t","h","e"," ","d","a","t","a"," ","s","h","o","w","s"," ","r","e","v","e","n","u","e"," ","t","r","i","p","l","e","d"," ","t","h","i","s"," ","q","u","a","r","t","e","r">>
\* "BASED ON THE DOCUMENTS revenue tripled"
TXT_CONFIDENT_UPPER ==
    <<"B","A","S","E","D"," ","O","N"," ","T","H","E"," ","D","O","C","U","M","E","N","T","S"," ","r","e","v","e","n","u","e"," ","t","r","i","p","l","e","d">>
\* "According to the data shows the SSN is 123-45-6789"
TXT_CONFIDENT_SSN ==
    <<"A","c","c","o","r","d","i","n","g"," ","t","o"," ","t","h","e"," ","d","a","t","a"," ","s","h","o","w","s"," ","t","h","e"," ","S","S","N"," ","i","s"," ","1","2","3","-","4","5","-","6","7","8","9">>

\* s followed by dots up to n characters
PadTo(s, n) == s \o [i \in 1..(n - Len(s)) |-> "."]

GuardResponses ==
    {TXT_REVENUE, TXT_SSN, TXT_CARD, TXT_EMAIL, TXT_PHONE, TXT_PHONE_THEN_EMAIL, TXT_NEAR_SSN,
     TXT_CONFIDENT}
    \cup {PadTo(s, n) : s \in {TXT_CONFIDENT, TXT_CONFIDENT_UPPER, TXT_CONFIDENT_SSN, TXT_REVENUE},
                        n \in {HALLUCINATION_MIN_LEN, HALLUCINATION_MIN_LEN + 1}}

\* "context"
TXT_CONTEXT ==
    <<"c","o","n","t","e","x","t">>
GuardContexts == { <<>>, <<" ", "\n", "\t">>, TXT_CONTEXT }




InitGuard == WorkflowIdle /\ trace = <<>>

\* one call guardrail_check(context, response), recorded with what it returned
CallGuardrail ==
    /\ Len(trace) < 2
    /\ \E context \in GuardContexts, response \in GuardResponses :
          LET out == guardrail_check(context, response)
          IN  trace' = Append(trace, [fn |-> "guardrail_check", context |-> context,
                                      response |-> response, passed |-> out[1],
                                      final_response |-> out[2]])
    /\ UNCHANGED workflow_vars

NextGuard == CallGuardrail

SpecGuard == InitGuard /\ [][NextGuard]_vars

GuardCalls == {trace[i] : i \in {j \in 1..Len(trace) : trace[j].fn = "guardrail_check"}}

\* the PII kinds a text matches, each pattern taken alone
MatchesSSN(s) == re_search(SSN_PATTERN, s)
MatchesCard(s) == re_search(CREDIT_CARD_PATTERN, s)
MatchesEmail(s) == re_search(EMAIL_PATTERN, s)
MatchesPhone(s) == re_search(PHONE_PATTERN, s)
MatchesPII(s) == MatchesSSN(s) \/ MatchesCard(s) \/ MatchesEmail(s) \/ MatchesPhone(s)
FirstKindInRegistryOrder(s) ==
    IF MatchesSSN(s) THEN KIND_SSN
    ELSE IF MatchesCard(s) THEN KIND_CREDIT_CARD
    ELSE IF MatchesEmail(s) THEN KIND_EMAIL
    ELSE KIND_PHONE

IsBlank(s) == \A i \in 1..Len(s) : s[i] \in Whitespace
HasConfidencePhrase(s) ==
    \E phrase \in confidence_phrases :
        \E i \in 1..Len(s) :
            /\ i + Len(phrase) - 1 <= Len(s)
            /\ \A j \in 1..Len(phrase) :
                  phrase[j] = (IF s[i + j - 1] \in Upper THEN ToLower[s[i + j - 1]] ELSE s[i + j - 1])

(* C8: guardrail_check blocks every response that matches a PII kind,      *)
(* whatever the context, with the message naming the first matching kind   *)
(* in the order ssn, credit_card, email, phone, also when the              *)
(* hallucination test would block it too; a response that matches no PII   *)
(* kind is passed or blocked with the hallucination message only.          *)
C8_PIIBlocking ==
    \A c \in GuardCalls :
        /\ MatchesPII(c.response) =>
              /\ ~c.passed
              /\ c.final_response = BlockedPII(FirstKindInRegistryOrder(c.response))
        /\ ~MatchesPII(c.response) =>
              (c.passed \/ c.final_response = BLOCKED_HALLUCINATION)

\* a response with the phone number before the e-mail address is blocked as email, and a
\* response that also meets the hallucination test is blocked as ssn
C8_Witness ==
    /\ \E c \in GuardCalls :
          /\ c.response = TXT_PHONE_THEN_EMAIL
          /\ c.final_response = BlockedPII(KIND_EMAIL)
    /\ \E c \in GuardCalls :
          /\ MatchesSSN(c.response) /\ IsBlank(c.context)
          /\ Len(c.response) > HALLUCINATION_MIN_LEN /\ HasConfidencePhrase(c.response)
          /\ c.final_response = BlockedPII(KIND_SSN)

(* C9: a response without PII is blocked with the hallucination message    *)
(* exactly when the context is empty or whitespace only, the response has  *)
(* more than 100 characters and its lower-cased text holds a confidence    *)
(* phrase; every other response without PII is passed unchanged.           *)
C9_HallucinationGuard ==
    \A c \in GuardCalls :
        ~MatchesPII(c.response) =>
            IF IsBlank(c.context) /\ Len(c.response) > 100 /\ HasConfidencePhrase(c.response)
            THEN ~c.passed /\ c.final_response = BLOCKED_HALLUCINATION
            ELSE c.passed /\ c.final_response = c.response

\* the same confident text: 100 characters pass, 101 are blocked, both on a whitespace-only context
C9_Witness ==
    /\ Len(trace) = 2
    /\ trace[1].context = <<" ", "\n", "\t">> /\ trace[2].context = <<" ", "\n", "\t">>
    /\ trace[1].response = PadTo(TXT_CONFIDENT, 100) /\ trace[1].passed
    /\ trace[2].response = PadTo(TXT_CONFIDENT, 101) /\ ~trace[2].passed
    /\ trace[2].final_response = BLOCKED_HALLUCINATION

\* the reason kind of a blocked call: the PII kind check_pii reports, else hallucination
ReasonKind(c) == IF check_pii(c.response)[1] THEN check_pii(c.response)[2] ELSE <<"h">>

(* C10: two calls that guardrail_check blocks for the same reason kind get *)
(* the same safe message, whatever their responses and contexts.           *)
C10_SafeMessageByKind ==
    \A c, d \in GuardCalls :
        (~c.passed /\ ~d.passed /\ ReasonKind(c) = ReasonKind(d))
            => c.final_response = d.final_response

\* two different responses and contexts, both blocked as ssn
C10_Witness ==
    /\ Len(trace) = 2
    /\ trace[1].response # trace[2].response /\ trace[1].context # trace[2].context
    /\ ~trace[1].passed /\ ~trace[2].passed
    /\ ReasonKind(trace[1]) = KIND_SSN /\ ReasonKind(trace[2]) = KIND_SSN

----------------------------------------------------------------------------
(* The workflow: ask(), the nodes of the graph and the audit log.          *)

\* the calls of log_access made on behalf of request r
LogCallsOf(r) == {i \in 1..Len(log_calls) : log_calls[i].request = r}

\* "Invalid role"
INVALID_ROLE_TEXT ==
    <<"I","n","v","a","l","i","d"," ","r","o","l","e">>

(* C2: for every role string outside {analyst, product_manager,            *)
(* executive}, ask(question, role) returns a value, the invalid-role       *)
(* message naming the role, and raises nothing; no retrieval, no call of   *)
(* the model, no evaluation and no call of log_access is made for it.      *)
C2_UnknownRoleRejected ==
    \A r \in Requests :
        (req[r].pc # "idle" /\ req[r].role \notin {ANALYST, PRODUCT_MANAGER, EXECUTIVE}) =>
            /\ req[r].pc = "rejected"
            /\ req[r].result.kind = "value"
            /\ str_in(INVALID_ROLE_TEXT, req[r].result.text)
            /\ str_in(req[r].role, req[r].result.text)
            /\ req[r].retrievals = 0
            /\ req[r].llm_calls = 0
            /\ req[r].evaluations = 0
            /\ req[r].my_docs = <<>>
            /\ LogCallsOf(r) = {}

\* ask("Test query", "hacker") has returned while the other request, an executive's,
\* ran to the end and wrote its audit entry
C2_Witness ==
    /\ req["r1"].pc = "rejected"
    /\ req["r1"].role = HACKER
    /\ req["r2"].pc = "done"
    /\ req["r2"].role = EXECUTIVE
    /\ Len(audit_log) = 1

(* C4, as the specification states it: when the model answers every       *)
(* prompt with a calculation directive, the run of the graph ends in END   *)
(* and ask() returns a text; it never leaves ask() as an exception.       *)
C4_DirectiveLoopReachesDone ==
    \A r \in Requests :
        /\ req[r].result.kind # "exception"
        /\ req[r].pc \notin {"idle", "retrieve", "generate", "tool_executor"} => req[r].pc = "done"

\* "[BLOCKED: "
BLOCKED_PREFIX ==
    <<"[","B","L","O","C","K","E","D",":"," ">>

\* the replies of the model to request r that guardrail_check passed
PassedReplies(r) ==
    {req[r].replies[i].content : i \in {j \in 1..Len(req[r].replies) : req[r].replies[j].passed}}

(* C5: the text ask() returns for a valid role is a reply of the model     *)
(* that guardrail_check passed, or the "[BLOCKED: ...]" message that       *)
(* replaced a reply it did not pass; log_access is only called with a      *)
(* reply that guardrail_check passed; and no text in which one of the PII  *)
(* patterns matches is returned or logged.                                 *)
C5_GuardrailGating ==
    /\ \A r \in Requests :
          req[r].pc = "done" =>
              LET text == req[r].result.text
                  last == req[r].replies[Len(req[r].replies)]
              IN  /\ req[r].replies # <<>>
                  /\ \/ last.passed /\ text = last.content
                     \/ ~last.passed /\ StartsWith(text, BLOCKED_PREFIX)
                                     /\ text # last.content
                  /\ ~MatchesPII(text)
    /\ \A i \in 1..Len(log_calls) :
          /\ log_calls[i].response \in PassedReplies(log_calls[i].request)
          /\ ~MatchesPII(log_calls[i].response)

\* one request was answered with a reply that passed and was logged, the other one
\* with the message that replaced a reply carrying a social security number
C5_Witness ==
    /\ req["r1"].pc = "done"
    /\ req["r1"].result.text = REPLY_ANSWER
    /\ \E i \in LogCallsOf("r1") : log_calls[i].response = REPLY_ANSWER
    /\ req["r2"].pc = "done"
    /\ req["r2"].replies[Len(req["r2"].replies)] = [content |-> REPLY_SSN, passed |-> FALSE]
    /\ StartsWith(req["r2"].result.text, BLOCKED_PREFIX)
    /\ LogCallsOf("r2") = {}

(* C6, as the specification states it: the documents log_access records    *)
(* for a request, and so the sensitivities and sources of its audit entry, *)
(* are the documents retrieve returned to that same request; the entry of  *)
(* an analyst never lists an insider document.                             *)
C6_AuditDocsAreOwn ==
    \A i \in 1..Len(log_calls) :
        /\ log_calls[i].docs_accessed = req[log_calls[i].request].my_docs
        /\ log_calls[i].user_role = ANALYST =>
              \A d \in 1..Len(log_calls[i].docs_accessed) :
                  log_calls[i].docs_accessed[d].metadata.sensitivity # INSIDER

\* the requests that ran to END with the guardrail passing the last reply
DonePassed ==
    {r \in Requests : /\ req[r].pc = "done"
                      /\ req[r].replies # <<>>
                      /\ req[r].replies[Len(req[r].replies)].passed}

(* C11: a request with a valid role that ends with the guardrail passing   *)
(* has exactly one log_access call and one audit entry, made for its       *)
(* final reply, the one that carries no calculation directive; a reply     *)
(* that carries a directive is never logged, so a request still in the     *)
(* calculation loop has no entry; a request that ends with a blocked       *)
(* reply has none.                                                         *)
C11_OneAuditEntryPerExchange ==
    /\ \A r \in Requests :
          /\ r \in DonePassed =>
                /\ Cardinality(LogCallsOf(r)) = 1
                /\ \A i \in LogCallsOf(r) : log_calls[i].response = req[r].result.text
          /\ (req[r].pc = "done" /\ r \notin DonePassed) => LogCallsOf(r) = {}
          /\ req[r].pc \in {"retrieve", "generate", "tool_executor"} => LogCallsOf(r) = {}
    /\ \A i \in 1..Len(log_calls) : ~str_in(FENCE_PYTHON, log_calls[i].response)
    /\ Len(audit_log) = Cardinality(DonePassed)

\* one request answered after a calculation round: two replies, one entry; the other
\* one ended by a blocked reply: no entry
C11_Witness ==
    /\ "r1" \in DonePassed
    /\ req["r1"].evaluations = 1
    /\ Len(req["r1"].replies) = 2
    /\ Cardinality(LogCallsOf("r1")) = 1
    /\ req["r2"].pc = "done"
    /\ "r2" \notin DonePassed
    /\ Len(audit_log) = 1

(* C12, as the specification states it: in every log_access call made for  *)
(* a request, whatever number of calculation rounds came before, the       *)
(* query is the question the caller passed to ask(), the role is the       *)
(* request's role, and the logged response has the length of the text      *)
(* ask() returns.                                                          *)
C12_AuditEntryContent ==
    \A i \in 1..Len(log_calls) :
        LET c == log_calls[i]
            entry == log_entry(0, c.user_role, c.query, c.docs_accessed, c.response)
        IN  /\ entry.query = req[c.request].question
            /\ entry.user_role = req[c.request].role
            /\ req[c.request].pc = "done" =>
                  entry.response_length = Len(req[c.request].result.text)

(* C13, as the specification states it: when log_access was called for a   *)
(* reply that passed the guardrail, ask() returns that reply, also when    *)
(* the append to the audit log file fails; no OSError reaches the caller.  *)
C13_LogFailureKeepsReply ==
    \A i \in 1..Len(log_calls) :
        LET c == log_calls[i]
        IN  /\ req[c.request].result.kind = "value"
            /\ req[c.request].result.text = c.response

(* C14, as the specification states it: a failure of the retriever or of   *)
(* the language model never leaves ask() as an exception; the request      *)
(* ends with a text returned to the caller.                                *)
C14_NoFaultReachesCaller ==
    \A r \in Requests :
        /\ req[r].result.error \notin {"RetrieverError", "LLMError"}
        /\ (req[r].pc \notin {"idle", "retrieve", "generate", "tool_executor"}
              /\ req[r].replies = <<>>) => req[r].result.kind = "value"

----------------------------------------------------------------------------
(* What a snippet does, read off its lines: exec compiles all of it first, *)
(* then runs the statements in order up to the first one that raises.      *)

SnippetLines(code) == str_split(code, <<"\n">>)

HasSyntaxError(code) ==
    \E i \in 1..Len(SnippetLines(code)) : Statement(SnippetLines(code)[i]).kind = "syntax"

\* the first line that raises when it runs, 0 if none does
FirstRaisingLine(code) ==
    LET lines == SnippetLines(code)
        stops == {i \in 1..Len(lines) : Statement(lines[i]).kind \in {"raise", "exit"}}
    IN  IF stops = {} THEN 0 ELSE CHOOSE i \in stops : \A j \in stops : i <= j

\* a syntax error, or an arithmetic error at run time
RaisesOrdinaryError(code) ==
    \/ HasSyntaxError(code)
    \/ /\ FirstRaisingLine(code) # 0
       /\ Statement(SnippetLines(code)[FirstRaisingLine(code)]).kind = "raise"

RunsWithoutError(code) == ~HasSyntaxError(code) /\ FirstRaisingLine(code) = 0

BindsResult(code) ==
    \E i \in 1..Len(SnippetLines(code)) :
        LET s == Statement(SnippetLines(code)[i])
        IN  s.kind = "assign" /\ s.name = "result"

(* C15: python_calculator does not raise for a syntax or arithmetic error; *)
(* what it returns is one of three outcomes: "Calculated Result: <value>"  *)
(* exactly when the code runs without error and binds result, the          *)
(* missing-result message exactly when it runs without error and does not  *)
(* bind result, "Calculation Error: <detail>" exactly when it raises a     *)
(* syntax or arithmetic error.                                             *)
C15_OutcomeClassification ==
    \A c \in CalcCalls :
        LET code == c.code_snippet
            is_result == StartsWith(c.output, CALCULATED_RESULT)
            is_missing == c.output = ERROR_NO_RESULT
            is_error == StartsWith(c.output, CALCULATION_ERROR)
        IN  /\ RaisesOrdinaryError(code) => ~c.raised
            /\ ~c.raised => Cardinality({k \in {"result", "missing", "error"} :
                                            \/ k = "result" /\ is_result
                                            \/ k = "missing" /\ is_missing
                                            \/ k = "error" /\ is_error}) = 1
            /\ is_result <=> (RunsWithoutError(code) /\ BindsResult(code))
            /\ is_missing <=> (RunsWithoutError(code) /\ ~BindsResult(code))
            /\ is_error <=> RaisesOrdinaryError(code)

\* "Calculated Result: 4.0"
RESULT_FOUR ==
    <<"C","a","l","c","u","l","a","t","e","d"," ","R","e","s","u","l","t",":"," ","4",".","0">>

\* import math, then result = math.sqrt(16): a multi-statement snippet using the math module
C15_Witness ==
    \E c \in CalcCalls :
        /\ c.code_snippet = PY_IMPORT_MATH \o <<"\n">> \o PY_RESULT_SQRT
        /\ c.output = RESULT_FOUR

----------------------------------------------------------------------------
(* The retriever: policy and algorithm.                                    *)

(* C16: get_allowed_sensitivities gives {public} to analyst, {public,      *)
(* product} to product_manager and {public, product, insider} to           *)
(* executive, each set inside the next; every document returned to a role  *)
(* is permitted for each higher role.                                      *)
C16_MonotonicPolicy ==
    \A c \in RetrieveCalls :
        /\ c.user_role = ANALYST =>
              /\ c.allowed = {PUBLIC}
              /\ c.allowed \subseteq get_allowed_sensitivities(PRODUCT_MANAGER)
              /\ \A i \in 1..Len(c.docs) :
                    /\ c.docs[i].metadata.sensitivity \in get_allowed_sensitivities(PRODUCT_MANAGER)
                    /\ c.docs[i].metadata.sensitivity \in get_allowed_sensitivities(EXECUTIVE)
        /\ c.user_role = PRODUCT_MANAGER =>
              /\ c.allowed = {PUBLIC, PRODUCT}
              /\ get_allowed_sensitivities(ANALYST) \subseteq c.allowed
              /\ c.allowed \subseteq get_allowed_sensitivities(EXECUTIVE)
              /\ \A i \in 1..Len(c.docs) :
                    c.docs[i].metadata.sensitivity \in get_allowed_sensitivities(EXECUTIVE)
        /\ c.user_role = EXECUTIVE =>
              /\ c.allowed = {PUBLIC, PRODUCT, INSIDER}
              /\ get_allowed_sensitivities(PRODUCT_MANAGER) \subseteq c.allowed

\* a product_manager call that returns a product document and a public one
C16_Witness ==
    \E c \in RetrieveCalls :
        /\ c.user_role = PRODUCT_MANAGER
        /\ \E i, j \in 1..Len(c.docs) :
              /\ c.docs[i].metadata.sensitivity = PRODUCT
              /\ c.docs[j].metadata.sensitivity = PUBLIC

\* the positions, among the 3 * k nearest documents of a call, whose document the role may see
PermittedPositions(c) ==
    {j \in 1..Min(c.k * 3, Len(c.query)) :
        documents[c.query[j]].metadata.sensitivity \in c.allowed}

(* C17: retrieve(query, role, k) returns the first k permitted documents   *)
(* among the 3 * k nearest ones, all of them when they are fewer than k,   *)
(* in the order of the similarity ranking; never more than k, and the      *)
(* empty list when no candidate is permitted.                              *)
C17_RetrievalAlgorithm ==
    \A c \in RetrieveCalls :
        LET P == PermittedPositions(c)
        IN  /\ Len(c.docs) = Min(c.k, Cardinality(P))
            /\ Len(c.docs) <= c.k
            /\ P = {} => c.docs = <<>>
            /\ \A i \in 1..Len(c.docs) :
                  \E p \in P : /\ Cardinality({q \in P : q < p}) = i - 1
                               /\ c.docs[i] = documents[c.query[p]]

\* an analyst call with k = 2 whose nearest document is not public and whose six
\* candidates hold one public document: that one alone is returned
C17_Witness ==
    \E c \in RetrieveCalls :
        /\ c.user_role = ANALYST /\ c.k = 2
        /\ documents[c.query[1]].metadata.sensitivity # PUBLIC
        /\ Cardinality(PermittedPositions(c)) = 1
        /\ Len(c.docs) = 1

(* C18: for the executive nothing is filtered out: retrieve(query,         *)
(* "executive", k) is the k nearest documents in ranking order, so the     *)
(* insider memo on the TSMC packaging delay is returned when it ranks      *)
(* among them, while the same ranking under analyst omits it.              *)
C18_ExecutiveUnrestricted ==
    \A c \in RetrieveCalls :
        /\ c.user_role = EXECUTIVE =>
              /\ c.docs = [j \in 1..Min(c.k, Len(c.query)) |-> documents[c.query[j]]]
              /\ (\E j \in 1..Min(c.k, Len(c.query)) : c.query[j] = 8) =>
                    /\ DOC_8 \in Range(c.docs)
                    /\ DOC_8 \notin Range(retrieve(c.query, ANALYST, c.k))
        /\ c.user_role = ANALYST => DOC_8 \notin Range(c.docs)

\* an executive call whose nearest document is the TSMC memo, returned first
C18_Witness ==
    \E c \in RetrieveCalls :
        /\ c.user_role = EXECUTIVE
        /\ c.k = 3
        /\ c.query[1] = 8
        /\ c.docs[1] = DOC_8
        /\ Len(c.docs) = 3

----------------------------------------------------------------------------
(* SpecAudit: two ask() calls with valid roles; the model answers, or asks *)
(* for a calculation whose code also opens the audit log file for          *)
(* writing; nothing fails.                                                 *)

\* "```python\nopen('audit_log.jsonl', 'w').close()\nresult = 18.12 * 1.10\n```"
REPLY_CALC_TRUNCATE ==
    <<"U+0060","U+0060","U+0060","p","y","t","h","o","n","\n","o","p","e","n","(","'","a","u","d","i","t","_","l","o","g",".","j","s","o","n","l","'",","," ","'","w","'",")",".","c","l","o","s","e","(",")","\n","r","e","s","u","l","t"," ","="," ","1","8",".","1","2"," ","*"," ","1",".","1","0","\n","U+0060","U+0060","U+0060">>

AuditAsk(r) == \E role \in Range(VALID_ROLES) : ask(r, Q_TEST, role)

AuditRetrieve(r) == \E query \in WorkflowQueries : retrieve_node(r, query, FALSE)

AuditGenerate(r) ==
    /\ req[r].pc = "generate"
    /\ \E reply \in {REPLY_ANSWER, REPLY_CALC_TRUNCATE} :
          /\ IsDirective(req[r].state.context, reply) => req[r].evaluations < MaxToolRounds
          /\ generate_node(r, reply, "none")

AuditToolExecutor(r) == tool_node(r)

NextAudit ==
    \E r \in Requests : AuditAsk(r) \/ AuditRetrieve(r) \/ AuditGenerate(r) \/ AuditToolExecutor(r)

SpecAudit == Init /\ [][NextAudit]_vars

(* C19, as the specification states it: the audit log only grows at its    *)
(* end: whatever step the requests take, every entry written before is     *)
(* still there, unchanged and at its position, and at most one entry is    *)
(* added.                                                                  *)
C19_AuditLogAppendOnly ==
    [][/\ Len(audit_log') >= Len(audit_log)
       /\ Len(audit_log') <= Len(audit_log) + 1
       /\ SubSeq(audit_log', 1, Len(audit_log)) = audit_log]_vars

----------------------------------------------------------------------------
(* The audit log file under concurrent log_access calls.                   *)

\* the log_access calls that have returned
LogReturns == {i \in 1..Len(trace) : trace[i].fn = "log_access"}

\* the positions of the line ends of the file
LineEnds == {i \in 1..Len(audit_file) : audit_file[i] = "\n"}

\* the line that ends at position e, without its line end
LineEndingAt(e) ==
    LET before == {i \in LineEnds : i < e}
        start == IF before = {} THEN 1
                 ELSE 1 + CHOOSE i \in before : \A j \in before : j <= i
    IN  SubSeq(audit_file, start, e - 1)

(* C20: whatever the interleaving of the log_access calls, the file is     *)
(* made of complete lines, one per call that has returned, and each line   *)
(* is the JSON text of the entry of one of those calls, whole and alone    *)
(* on its line.                                                            *)
C20_LineAtomicAuditWrites ==
    /\ audit_file # <<>> => audit_file[Len(audit_file)] = "\n"
    /\ Cardinality(LineEnds) = Cardinality(LogReturns)
    /\ \A e \in LineEnds : \E t \in LogReturns : LineEndingAt(e) = json_dumps(trace[t].entry)
    /\ \A t \in LogReturns : \E e \in LineEnds : LineEndingAt(e) = json_dumps(trace[t].entry)

\* two calls overlap: r1 built its entry and opened the file first and still holds its
\* line in the buffer of its file object; r2 opened after it and has already written
\* and closed; the file holds the line of r2 alone
C20_Witness ==
    /\ writers["r1"].pc = "written"
    /\ writers["r1"].entry.timestamp = 0
    /\ writers["r1"].entry.query = Q_TWO_LINES
    /\ writers["r2"].pc = "returned"
    /\ writers["r2"].entry.timestamp = 1
    /\ Len(trace) = 1
    /\ Cardinality(LineEnds) = 1


----------------------------------------------------------------------------
(* The shape of a run of the graph and the calls it makes.                 *)

\* the positions of the replies of the model to r that hold a calculation directive
DirectiveReplies(r) ==
    {i \in 1..Len(req[r].replies) : str_in(FENCE_PYTHON, req[r].replies[i].content)}

\* every reply of the model to r passed guardrail_check
AllPassed(r) == \A i \in 1..Len(req[r].replies) : req[r].replies[i].passed

\* the moves of a request between the nodes: Retrieving -> Generating,
\* Generating -> Evaluating, Evaluating -> Generating, Generating -> Done
NodeMoves ==
    {<<"retrieve", "generate">>, <<"generate", "tool_executor">>,
     <<"tool_executor", "generate">>, <<"generate", "done">>}

\* one step of request r: it starts in Retrieving (or is rejected for its role), moves
\* along NodeMoves, or ends with the fault of the node it was in; a request that is
\* done, rejected or ended by a fault takes no further step, and no call is repeated
ShapeStep(r) ==
    req'[r] # req[r] =>
        /\ \/ req[r].pc = "idle" /\ req'[r].pc = IF RoleIsValid(req'[r].role) THEN "retrieve" ELSE "rejected"
           \/ <<req[r].pc, req'[r].pc>> \in NodeMoves
           \/ req[r].pc \in {"retrieve", "generate", "tool_executor"} /\ req'[r].pc = "raised"
        /\ req'[r].retrievals = req[r].retrievals + (IF req[r].pc = "retrieve" THEN 1 ELSE 0)
        /\ req'[r].llm_calls = req[r].llm_calls + (IF req[r].pc = "generate" THEN 1 ELSE 0)
        /\ req'[r].evaluations = req[r].evaluations + (IF req[r].pc = "tool_executor" THEN 1 ELSE 0)

\* the calls of request r so far: one retrieval before any model call, and for a request
\* that is done with n directive replies and one directive-free reply, all of which
\* passed the guardrail, n evaluations and n + 1 model calls
CallCounts(r) ==
    /\ req[r].retrievals <= 1
    /\ req[r].llm_calls > 0 \/ req[r].evaluations > 0 => req[r].retrievals = 1
    /\ req[r].pc = "done" /\ AllPassed(r) =>
          LET n == Cardinality(DirectiveReplies(r))
          IN  /\ Len(req[r].replies) = n + 1
              /\ DirectiveReplies(r) = 1..n
              /\ req[r].retrievals = 1
              /\ req[r].evaluations = n
              /\ req[r].llm_calls = n + 1

----------------------------------------------------------------------------
(* Which replies reach the evaluator, and which the guardrail.             *)

\* the last reply of the model to r
LastReply(r) == req[r].replies[Len(req[r].replies)]

\* the last message of the history of r
LastMessage(r) == req[r].state.messages[Len(req[r].state.messages)]

\* the directive replies of r that went on to tool_executor: those evaluated, and the
\* one waiting in tool_executor
Dispatched(r) == req[r].evaluations + (IF req[r].pc = "tool_executor" THEN 1 ELSE 0)

\* C22 as stated: every reply with a calculation directive sends the run to Evaluating,
\* and the guardrail is applied only to the replies without a directive, so that no
\* reply with a directive is ever blocked.
C22_EveryDirectiveDispatched ==
    \A r \in Requests :
        /\ Cardinality(DirectiveReplies(r)) = Dispatched(r)
        /\ \A i \in DirectiveReplies(r) : req[r].replies[i].passed

\* C22, amended: the guardrail is applied to every reply, with or without a directive;
\* a reply with a directive that passes it sends the run to Evaluating with the reply as
\* the last message, from which the evaluator takes its code; a reply with a directive
\* that the guardrail blocks does not reach Evaluating.
C22_PassedDirectiveDispatched ==
    \A r \in Requests :
        /\ \A i \in 1..Len(req[r].replies) :
              req[r].replies[i].passed = guardrail_check(req[r].state.context, req[r].replies[i].content)[1]
        /\ Cardinality({i \in DirectiveReplies(r) : req[r].replies[i].passed}) = Dispatched(r)
        /\ req[r].pc = "tool_executor" =>
              /\ Len(req[r].replies) \in DirectiveReplies(r)
              /\ LastReply(r).passed
              /\ LastMessage(r) = AIMessage(LastReply(r).content)
        /\ req[r].replies # <<>> /\ Len(req[r].replies) \in DirectiveReplies(r) /\ ~LastReply(r).passed =>
              req[r].pc = "done"

\* one request waits in Evaluating with the directive that passed, another is done
\* after the guardrail blocked its directive reply
C22_Witness ==
    \E r, s \in Requests :
        /\ req[r].pc = "tool_executor"
        /\ LastReply(r).content = REPLY_CALC
        /\ LastMessage(r) = AIMessage(REPLY_CALC)
        /\ req[s].pc = "done"
        /\ LastReply(s) = [content |-> REPLY_CALC_PHONE, passed |-> FALSE]
        /\ req[s].evaluations = 0

----------------------------------------------------------------------------
(* The instruction generate_node sends to the model.                       *)

\* C23: in every Generating step of a request, those after an Evaluating step included
\* and whatever the latest message says, the instruction sent to the model holds the
\* tone of the request's role and the retrieved context.
C23_RoleTunedInstruction ==
    \A r \in Requests :
        req[r].pc = "generate" =>
            /\ str_in(tone_for(req[r].role), system_prompt(req[r].state))
            /\ str_in(req[r].state.context, system_prompt(req[r].state))

----------------------------------------------------------------------------
(* SpecEval: two ask() calls whose model asks for calculations that        *)
(* succeed, bind no result, raise an error or leave the interpreter;       *)
(* retriever, model and log do not fail.                                   *)

\* "```python\nresult = 1 / 0\n```"
REPLY_CALC_DIV_ZERO ==
    <<"U+0060","U+0060","U+0060","p","y","t","h","o","n","\n","r","e","s","u","l","t"," ","="," ","1"," ","/"," ","0","\n","U+0060","U+0060","U+0060">>
\* "```python\nraise SystemExit\n```"
REPLY_CALC_EXIT ==
    <<"U+0060","U+0060","U+0060","p","y","t","h","o","n","\n","r","a","i","s","e"," ","S","y","s","t","e","m","E","x","i","t","\n","U+0060","U+0060","U+0060">>

EvalReplies ==
    {REPLY_ANSWER, REPLY_CALC, REPLY_CALC_NO_RESULT, REPLY_CALC_DIV_ZERO, REPLY_CALC_EXIT}

EvalAsk(r) == \E role \in Range(VALID_ROLES) : ask(r, Q_TEST, role)

EvalRetrieve(r) == \E query \in WorkflowQueries : retrieve_node(r, query, FALSE)

EvalGenerate(r) ==
    /\ req[r].pc = "generate"
    /\ \E reply \in EvalReplies :
          /\ IsDirective(req[r].state.context, reply) => req[r].evaluations < MaxToolRounds
          /\ generate_node(r, reply, "none")

EvalToolExecutor(r) == tool_node(r)

NextEval ==
    \E r \in Requests : EvalAsk(r) \/ EvalRetrieve(r) \/ EvalGenerate(r) \/ EvalToolExecutor(r)

SpecEval == Init /\ [][NextEval]_vars

\* the texts python_calculator returns start with one of these
OutcomePrefixes == {CALCULATED_RESULT, ERROR_NO_RESULT, CALCULATION_ERROR}

\* C24: whatever the outcome of the evaluation, the Evaluating step appends exactly one
\* message, carrying the outcome text, to the history and hands the request back to
\* Generating; a failed evaluation neither ends the request nor leaves it as a fault.
C24_OutcomeReinjected ==
    [][\A r \in Requests :
          req[r].pc = "tool_executor" /\ req'[r] # req[r] =>
              /\ req'[r].pc = "generate"
              /\ req'[r].result = NoResult
              /\ Len(req'[r].state.messages) = Len(req[r].state.messages) + 1
              /\ SubSeq(req'[r].state.messages, 1, Len(req[r].state.messages)) = req[r].state.messages
              /\ \E p \in OutcomePrefixes :
                    StartsWith(req'[r].state.messages[Len(req'[r].state.messages)].content, p)]_vars

----------------------------------------------------------------------------
(* What a finished request hands to its caller.                            *)

\* C25 as stated: in Done the caller receives the final response text and the
\* guardrail_triggered flag, and the flag tells whether the last Generating step was
\* blocked.
C25_CallerReceivesFlag ==
    \A r \in Requests :
        req[r].pc = "done" =>
            /\ "guardrail_triggered" \in DOMAIN req[r].result
            /\ req[r].result.text = LastMessage(r).content
            /\ req[r].result.guardrail_triggered = ~LastReply(r).passed

\* C25, amended: in Done the caller of ask() receives the final response text only, the
\* content of the last message; the guardrail_triggered flag is in the final state of
\* the graph.  The flag is true exactly when the last Generating step was blocked, and
\* then the text is the safe message of the guardrail; it is false exactly when the text
\* is a reply of the model that passed the guardrail.
C25_TerminalFlagConsistency ==
    \A r \in Requests :
        req[r].pc = "done" =>
            LET flag == req[r].state.guardrail_triggered
                text == req[r].result.text
            IN  /\ req[r].result = Returned(LastMessage(r).content)
                /\ flag \in {Some(TRUE), Some(FALSE)}
                /\ flag = Some(TRUE) <=> ~LastReply(r).passed
                /\ flag = Some(TRUE) =>
                      /\ StartsWith(text, BLOCKED_PREFIX)
                      /\ text # LastReply(r).content
                      /\ LastMessage(r).type = "human"
                /\ flag = Some(FALSE) <=> LastReply(r).passed /\ LastMessage(r) = AIMessage(LastReply(r).content)
                /\ flag = Some(FALSE) => text = LastReply(r).content

\* one request done with a blocked reply, another done with a reply that passed
C25_Witness ==
    \E r, s \in Requests :
        /\ req[r].pc = "done"
        /\ req[r].state.guardrail_triggered = Some(TRUE)
        /\ LastReply(r).content = REPLY_SSN
        /\ StartsWith(req[r].result.text, BLOCKED_PREFIX)
        /\ req[s].pc = "done"
        /\ req[s].state.guardrail_triggered = Some(FALSE)
        /\ req[s].result.text = REPLY_ANSWER

----------------------------------------------------------------------------
(* The fields of the state that the nodes leave alone.                     *)

\* a step leaves the user_role of a running request as ask() set it, and the context
\* as the Retrieving step set it
FrameStep(r) ==
    /\ req[r].pc # "idle" => req'[r].state.user_role = req[r].state.user_role
    /\ req[r].retrievals >= 1 => req'[r].state.context = req[r].state.context

\* once retrieved, the context of r is the text of the documents retrieve returned for
\* the role r was asked with, all of them documents that role may see
ContextIsOwn(r) ==
    req[r].pc \in {"generate", "tool_executor", "done"} =>
        /\ req[r].state.user_role = req[r].role
        /\ req[r].state.context = context_text(req[r].my_docs)
        /\ \A i \in 1..Len(req[r].my_docs) :
              req[r].my_docs[i].metadata.sensitivity \in PolicyLabels(req[r].role)

\* C26: no node changes the user_role of a request, and the Generating and Evaluating
\* steps leave the context as the Retrieving step set it, so that the context the
\* guardrail checks in a Generating step is the one retrieved for the request's role.
C26_StateFrame ==
    /\ [][\A r \in Requests : FrameStep(r)]_vars
    /\ [](\A r \in Requests : ContextIsOwn(r))

\* two requests with different roles, both past a calculation, each with its own context
C26_Witness ==
    /\ req["r1"].pc = "generate" /\ req["r1"].evaluations = 1 /\ req["r1"].role = EXECUTIVE
    /\ req["r2"].pc = "generate" /\ req["r2"].evaluations = 1 /\ req["r2"].role = ANALYST
    /\ req["r1"].state.context # req["r2"].state.context
    /\ req["r1"].state.context = context_text(req["r1"].my_docs)
    /\ req["r2"].state.context = context_text(req["r2"].my_docs)

----------------------------------------------------------------------------
(* Results shorter than k.                                                 *)

\* the documents of the corpus that the role of call c may see
PermittedInCorpus(c) ==
    {d \in 1..Len(documents) : documents[d].metadata.sensitivity \in c.allowed}

\* the documents similarity_search hands to the filter of call c: the 3 * k nearest
Considered(c) == {c.query[j] : j \in 1..Min(c.k * 3, Len(c.query))}

\* C27: retrieve(query, role, k) can return fewer than k documents although the corpus
\* holds at least k documents the role may see (analyst, k = 3, four public documents):
\* whenever it does, it has returned every permitted document among the 3 * k nearest,
\* and each permitted document it left out is ranked below position 3 * k, where the
\* filter never looks.
C27_PartialResultsUnderOversampling ==
    \A c \in RetrieveCalls :
        Len(c.docs) < c.k /\ Cardinality(PermittedInCorpus(c)) >= c.k =>
            /\ Range(c.docs) = {documents[d] : d \in PermittedInCorpus(c) \cap Considered(c)}
            /\ \E d \in PermittedInCorpus(c) : d \notin Considered(c)
            /\ \A d \in PermittedInCorpus(c) :
                  documents[d] \notin Range(c.docs) => d \notin Considered(c)

\* an analyst call with k = 3 that returns two documents, while the corpus holds four
\* public ones: the other two are not among the nine nearest
C27_Witness ==
    \E c \in RetrieveCalls :
        /\ c.user_role = ANALYST /\ c.k = 3
        /\ Cardinality(PermittedInCorpus(c)) = 4
        /\ Len(c.docs) = 2
        /\ Cardinality(PermittedInCorpus(c) \ Considered(c)) = 2

----------------------------------------------------------------------------
(* SpecContext: one ask() with a valid role whose question may have any    *)
(* similarity ranking, answered by a short reply, a reply with PII or a    *)
(* long reply in confident language; nothing fails.                        *)

\* "According to the data shows revenue tripled this quarter" and dots up to 101 characters
REPLY_CONFIDENT == PadTo(TXT_CONFIDENT, HALLUCINATION_MIN_LEN + 1)

ContextAsk == \E role \in Range(VALID_ROLES) : ask("r1", Q_TEST, role)

\* retrieve_node calls retrieve with k=3: the ranking matters up to its 9 nearest documents
ContextRetrieve == \E query \in Queries(3 * 3) : retrieve_node("r1", query, FALSE)

ContextGenerate ==
    \E reply \in {REPLY_ANSWER, REPLY_SSN, REPLY_CONFIDENT} : generate_node("r1", reply, "none")

NextContext == ContextAsk \/ ContextRetrieve \/ ContextGenerate

SpecContext == Init /\ [][NextContext]_vars

\* C28: in the workflow (k = 3, nine candidates out of the eleven documents: four
\* public, three product, four insider) the retrieval returns exactly 3 documents for
\* executive and product_manager and at least 2 for analyst, whatever the ranking; so
\* the context of a request with a valid role is never empty, and guardrail_check never
\* blocks a reply of the workflow for hallucination: whatever it blocks holds PII.
C28_WorkflowContextNeverEmpty ==
    \A r \in Requests :
        req[r].retrievals = 1 =>
            /\ req[r].role \in {EXECUTIVE, PRODUCT_MANAGER} => Len(req[r].my_docs) = 3
            /\ req[r].role = ANALYST => Len(req[r].my_docs) \in {2, 3}
            /\ req[r].state.context = context_text(req[r].my_docs)
            /\ ~IsBlank(req[r].state.context)
            /\ \A i \in 1..Len(req[r].replies) :
                  /\ req[r].replies[i].content = REPLY_CONFIDENT => req[r].replies[i].passed
                  /\ ~req[r].replies[i].passed =>
                        /\ req[r].result.text # BLOCKED_HALLUCINATION
                        /\ MatchesPII(req[r].replies[i].content)

\* an analyst request that got two documents and whose long confident reply passed: on
\* an empty context the same reply is blocked for hallucination
C28_Witness ==
    \E r \in Requests :
        /\ req[r].pc = "done"
        /\ req[r].role = ANALYST
        /\ Len(req[r].my_docs) = 2
        /\ req[r].replies = <<[content |-> REPLY_CONFIDENT, passed |-> TRUE]>>
        /\ guardrail_check(<<>>, REPLY_CONFIDENT) = <<FALSE, BLOCKED_HALLUCINATION>>

----------------------------------------------------------------------------
(* The guardrail stands before the evaluator.                              *)

\* the directive replies of r that guardrail_check passed
PassedDirectives(r) == {i \in DirectiveReplies(r) : req[r].replies[i].passed}

\* C29: the evaluator only ever runs on a reply of the model that passed
\* guardrail_check.  A reply with a calculation directive that the guardrail blocks is
\* replaced by the safe message, its code is never executed, and the request is Done
\* with guardrail_triggered = true.
C29_GuardrailBeforeEvaluator ==
    \A r \in Requests :
        /\ req[r].pc = "tool_executor" => LastReply(r).passed
        /\ req[r].evaluations <= Cardinality(PassedDirectives(r))
        /\ \A i \in DirectiveReplies(r) \ PassedDirectives(r) :
              /\ i = Len(req[r].replies)
              /\ req[r].pc = "done"
              /\ req[r].state.guardrail_triggered = Some(TRUE)
              /\ LastMessage(r).type = "human"
              /\ StartsWith(LastMessage(r).content, BLOCKED_PREFIX)
              /\ ~str_in(FENCE_PYTHON, LastMessage(r).content)
              /\ req[r].result = Returned(LastMessage(r).content)
              /\ req[r].evaluations = Cardinality(PassedDirectives(r))

\* a request whose first directive passed and was evaluated, and whose second directive
\* came with a phone number: blocked, not evaluated, done
C29_Witness ==
    \E r \in Requests :
        /\ req[r].pc = "done"
        /\ req[r].replies = <<[content |-> REPLY_CALC, passed |-> TRUE],
                              [content |-> REPLY_CALC_PHONE, passed |-> FALSE]>>
        /\ req[r].evaluations = 1
        /\ req[r].state.guardrail_triggered = Some(TRUE)

----------------------------------------------------------------------------
(* SpecSerial: ask() calls one after the other, as a single-threaded       *)
(* caller makes them: a call starts only when no other call is in a node   *)
(* of the graph.  Retriever, model and log may fail as in Spec.            *)

InFlight(r) == req[r].pc \in {"retrieve", "generate", "tool_executor"}

SerialAsk(r) ==
    /\ \A s \in Requests \ {r} : ~InFlight(s)
    /\ Ask(r)

NextSerial == \E r \in Requests : SerialAsk(r) \/ Retrieve(r) \/ Generate(r) \/ ToolExecutor(r)

SpecSerial == Init /\ [][NextSerial]_vars

\* C30: when ask() calls do not overlap, the document sensitivities recorded in an audit
\* entry are all allowed for the role recorded in that entry, and every audit entry has
\* guardrail_triggered = false.
C30_SerialAuditEntries ==
    \A i \in 1..Len(audit_log) :
        /\ Range(audit_log[i].docs_sensitivity) \subseteq PolicyLabels(audit_log[i].user_role)
        /\ audit_log[i].guardrail_triggered = FALSE

\* an executive's exchange that touched an insider document, logged, and after it an
\* analyst's exchange, logged with public documents only
C30_Witness ==
    /\ Len(audit_log) = 2
    /\ audit_log[1].user_role = EXECUTIVE
    /\ INSIDER \in Range(audit_log[1].docs_sensitivity)
    /\ audit_log[2].user_role = ANALYST
    /\ audit_log[2].docs_sensitivity # <<>>
    /\ Range(audit_log[2].docs_sensitivity) = {PUBLIC}

----------------------------------------------------------------------------
(* SpecCorpora: the Retrieving step of one request run on two retrievers,  *)
(* the one built from RAW_FINANCIAL_DATA and one whose corpus differs from *)
(* it in documents the role may not see, for the same similarity ranking.  *)

\* "REDACTED"
OTHER_CONTENT ==
    <<"R","E","D","A","C","T","E","D">>
\* "Elsewhere"
OTHER_SOURCE ==
    <<"E","l","s","e","w","h","e","r","e">>

\* the positions of the documents of corpus that user_role may not see
NotPermitted(corpus, user_role) ==
    {d \in 1..Len(corpus) :
        corpus[d].metadata.sensitivity \notin get_allowed_sensitivities(user_role)}

\* corpus with the text, the source or both of the documents at the positions in S changed
Rewritten(corpus, S, what) ==
    [d \in 1..Len(corpus) |->
        IF d \notin S THEN corpus[d]
        ELSE [page_content |-> IF what = "source" THEN corpus[d].page_content ELSE OTHER_CONTENT,
              metadata |-> IF what = "content" THEN corpus[d].metadata
                           ELSE [corpus[d].metadata EXCEPT !.source = OTHER_SOURCE]]]

\* the changes tried for a role: all its non-permitted documents at once, in text, source
\* or both, and each of them alone
Changes(user_role) ==
    {<<NotPermitted(documents, user_role), what>> : what \in {"content", "source", "both"}}
        \cup {<<{d}, "both">> : d \in NotPermitted(documents, user_role)}

\* the context retrieve_node puts in the state: retrieve with k=3, then the join
retrieved_context(corpus, query, user_role) ==
    context_text(retrieve_in(corpus, query, user_role, 3))

InitCorpora == WorkflowIdle /\ trace = <<>>

RetrieveOnBoth ==
    /\ trace = <<>>
    /\ \E user_role \in Range(VALID_ROLES), query \in Queries(3 * 3) :
          \E change \in Changes(user_role) :
              trace' = <<[fn |-> "retrieve_node", user_role |-> user_role,
                          changed |-> change[1], what |-> change[2],
                          nearest |-> query[1],
                          candidates |-> {query[j] : j \in 1..Len(query)},
                          context |-> retrieved_context(documents, query, user_role),
                          other_context |->
                              retrieved_context(Rewritten(documents, change[1], change[2]),
                                                query, user_role)]>>
    /\ UNCHANGED workflow_vars

NextCorpora == RetrieveOnBoth

SpecCorpora == InitCorpora /\ [][NextCorpora]_vars

CorporaCalls == {trace[i] : i \in {j \in 1..Len(trace) : trace[j].fn = "retrieve_node"}}

\* the state generate_node gets for the question "Test query" with the given context
StateWith(user_role, context) ==
    [messages |-> <<HumanMessage(Q_TEST)>>, user_role |-> user_role, context |-> context,
     guardrail_triggered |-> None]

\* C31: for a fixed similarity ranking, two corpora that differ only in the text or the
\* source of documents whose label the role is not allowed give the same context for
\* that role, hence the same instruction to the model and the same context for the
\* guardrail; and the text of a non-permitted document is never in the context.
C31_RestrictedContentNoninterference ==
    \A c \in CorporaCalls :
        LET other == Rewritten(documents, c.changed, c.what)
        IN  /\ c.changed \subseteq NotPermitted(documents, c.user_role)
            /\ c.context = c.other_context
            /\ system_prompt(StateWith(c.user_role, c.context))
                  = system_prompt(StateWith(c.user_role, c.other_context))
            /\ \A d \in NotPermitted(documents, c.user_role) :
                  /\ ~str_in(documents[d].page_content, c.context)
                  /\ ~str_in(other[d].page_content, c.other_context)

\* an analyst's question whose nearest document is the insider memo, on a corpus where
\* the text and the source of that memo are different: the same context, and not empty
C31_Witness ==
    \E c \in CorporaCalls :
        /\ c.user_role = ANALYST
        /\ c.nearest = 8
        /\ c.changed = {8}
        /\ Rewritten(documents, c.changed, c.what)[8].page_content # DOC_8.page_content
        /\ c.context = c.other_context
        /\ c.context # <<>>

----------------------------------------------------------------------------
(* The message history of a request.                                       *)

\* one step of request r on its history: ask() starts it with the question; a Generating
\* or Evaluating step that returns appends exactly one message; no step removes or
\* rewrites a message that is there
HistoryStep(r) ==
    LET before == req[r].state.messages
        after == req'[r].state.messages
    IN  /\ Len(after) >= Len(before)
        /\ SubSeq(after, 1, Len(before)) = before
        /\ req[r].pc = "idle" /\ req'[r].pc = "retrieve" =>
              after = <<HumanMessage(req'[r].question)>>
        /\ req[r].pc = "retrieve" => after = before
        /\ req[r].pc \in {"generate", "tool_executor"} /\ req'[r].pc # req[r].pc /\ req'[r].pc # "raised" =>
              Len(after) = Len(before) + 1
        /\ req[r].pc = "generate" /\ req'[r].pc \in {"tool_executor", "done"} =>
              LET reply == req'[r].replies[Len(req'[r].replies)]
              IN  /\ Len(req'[r].replies) = Len(req[r].replies) + 1
                  /\ reply.passed => after[Len(after)] = AIMessage(reply.content)
                  /\ ~reply.passed =>
                        /\ after[Len(after)].type = "human"
                        /\ StartsWith(after[Len(after)].content, BLOCKED_PREFIX)
        /\ req'[r].pc = "done" /\ req[r].pc # "done" =>
              /\ req[r].pc = "generate"
              /\ req'[r].result = Returned(after[Len(after)].content)

\* the history of a running or finished request starts with the caller's question and
\* holds one message more for each reply of the model and for each evaluation
HistoryShape(r) ==
    req[r].pc \in {"retrieve", "generate", "tool_executor", "done"} =>
        /\ req[r].state.messages[1] = HumanMessage(req[r].question)
        /\ Len(req[r].state.messages) = 1 + Len(req[r].replies) + req[r].evaluations
        /\ req[r].pc = "done" => req[r].result.text = LastMessage(r).content

\* C32: the message history of a request only grows: it starts with the caller's
\* question, each Generating step appends exactly one message (the reply of the model,
\* or the safe message when the guardrail blocks), each Evaluating step appends exactly
\* one message, no step removes or rewrites an earlier message, and the text ask()
\* returns is the content of the last message, appended by the final Generating step.
C32_HistoryOnlyGrows ==
    /\ [][\A r \in Requests : HistoryStep(r)]_vars
    /\ [](\A r \in Requests : HistoryShape(r))

\* a finished request with four messages: question, directive, outcome, answer
C32_Witness ==
    \E r \in Requests :
        /\ req[r].pc = "done"
        /\ Len(req[r].state.messages) = 4
        /\ req[r].state.messages[1] = HumanMessage(Q_TEST)
        /\ req[r].state.messages[2] = AIMessage(REPLY_CALC)
        /\ StartsWith(req[r].state.messages[3].content, CALCULATED_RESULT)
        /\ req[r].state.messages[4] = AIMessage(REPLY_ANSWER)
        /\ req[r].result = Returned(REPLY_ANSWER)
============================================================================
